---- MODULE Spec2Model ----
(***************************************************************************)
(* A model of the policy deque (src/src/pdeque.rs) and of the synchronous *)
(* policy channel built on it (src/src/pchannel.rs).                      *)
(*                                                                         *)
(* The channel's mutex makes every critical section one atomic step; a    *)
(* condition-variable wait splits send()/recv() into the step that starts *)
(* waiting and the step that runs after the thread has been notified.     *)
(*                                                                         *)
(* Further sections model the hub (src/src/hub.rs), the start of a thread *)
(* by thread_rt::Builder (src/src/thread_rt.rs), the controller's state   *)
(* and its signal handler with the shutdown watchdog                      *)
(* (src/src/controller.rs, src/src/lib.rs), the supervisor                *)
(* (src/src/supervisor.rs), kill_pstree, the Interval of src/src/time.rs, *)
(* the semaphore (src/src/semaphore.rs) and the async policy channel      *)
(* (src/src/pchannel_async.rs).                                            *)
(***************************************************************************)
EXTENDS Integers, Sequences, FiniteSets, TLC

\* ------------------------------------------------------------------ bounds
MaxCap == 2
MaxPush == 5
Rounds == 2

\* ------------------------------------------------------- the message type
\* The message enum: the three variants of the channel tests plus a
\* SingleOptional variant; Temperature carries a TTL cell and can expire.
Kinds == {"Test", "Temperature", "Spam", "K"}

\* hub::test::Message, whose DataDeliveryPolicy impl is the default one
MessageKinds == {"M.Temperature", "M.Humidity", "M.Test"}

delivery_policy(k) ==
    CASE k = "Test" -> "Always"
      [] k = "Temperature" -> "Single"
      [] k = "Spam" -> "Optional"
      [] k = "K" -> "SingleOptional"
      [] k \in MessageKinds -> "Always"

priority(k) ==
    CASE k = "Test" -> 100
      [] k = "Temperature" -> 10
      [] k = "Spam" -> 50
      [] k = "K" -> 100
      [] k \in MessageKinds -> 100

ExpirableKinds == {"Temperature"}

NoVal == [kind |-> "none", id |-> 0, exp |-> FALSE]

Msg(k, i) == [kind |-> k, id |-> i, exp |-> FALSE]

is_expired(v) == v.exp

eq_kind(a, b) == a.kind = b.kind

is_delivery_policy_single(v) ==
    delivery_policy(v.kind) \in {"Single", "SingleOptional"}

is_delivery_policy_optional(v) ==
    delivery_policy(v.kind) \in {"Optional", "SingleOptional"}

\* ---------------------------------------------------------------- pdeque
\* Stable insertion of x into a sequence sorted by priority: after every
\* entry whose priority is not greater.
RECURSIVE InsertByPriority(_, _)
InsertByPriority(s, x) ==
    IF s = <<>> THEN <<x>>
    ELSE IF priority(Head(s).kind) <= priority(x.kind)
         THEN <<Head(s)>> \o InsertByPriority(Tail(s), x)
         ELSE <<x>> \o s

SortSkipped(s) == s

\* slice::sort_by is a stable sort: insertion sort from the left.
RECURSIVE sort_by_priority(_)
sort_by_priority(s) ==
    IF s = <<>> THEN <<>>
    ELSE InsertByPriority(sort_by_priority(SubSeq(s, 1, Len(s) - 1)), s[Len(s)])

\* The push! macro: push_back, then sort when the deque is ordered.
Push(data, ord, value) ==
    IF ord THEN sort_by_priority(Append(data, value)) ELSE Append(data, value)

\* retain(|d| !d.eq_kind(&value) && !d.is_expired())
RetainOtherKinds(data, value) ==
    SelectSeq(data, LAMBDA d : ~eq_kind(d, value) /\ ~is_expired(d))

Evictable(d) == is_expired(d) \/ is_delivery_policy_optional(d)

RemoveEveryEvictable(data) == SelectSeq(data, LAMBDA d : ~Evictable(d))

\* The second retain: removes the first expired or optional entry only.
RemoveFirstEvictable(data) ==
    LET hits == {i \in 1..Len(data) : Evictable(data[i])}
    IN  IF hits = {} THEN data
        ELSE LET i == CHOOSE j \in hits : \A h \in hits : j <= h
             IN  SubSeq(data, 1, i - 1) \o SubSeq(data, i + 1, Len(data))

TryPushNoSingleCleanup(data, cap, ord, value) ==
    IF is_expired(value) THEN [data |-> data, pushed |-> TRUE, value |-> NoVal]
    ELSE IF Len(data) < cap
         THEN [data |-> Push(data, ord, value), pushed |-> TRUE, value |-> NoVal]
         ELSE IF delivery_policy(value.kind) \in {"Always", "Single"}
              THEN LET d2 == RemoveFirstEvictable(data)
                   IN  IF Len(d2) < cap
                       THEN [data |-> Push(d2, ord, value), pushed |-> TRUE,
                             value |-> NoVal]
                       ELSE [data |-> d2, pushed |-> FALSE, value |-> value]
              ELSE [data |-> data, pushed |-> FALSE, value |-> NoVal]

TryPushNoCapacityCheck(data, cap, ord, value) ==
    IF is_expired(value) THEN [data |-> data, pushed |-> TRUE, value |-> NoVal]
    ELSE LET d1 == IF is_delivery_policy_single(value)
                   THEN RetainOtherKinds(data, value) ELSE data
         IN  IF Len(d1) < cap \/ delivery_policy(value.kind) \in {"Always", "Single"}
             THEN [data |-> Push(d1, ord, value), pushed |-> TRUE, value |-> NoVal]
             ELSE [data |-> d1, pushed |-> FALSE, value |-> NoVal]

TryPushOptionalHandedBack(data, cap, ord, value) ==
    IF is_expired(value) THEN [data |-> data, pushed |-> TRUE, value |-> NoVal]
    ELSE LET d1 == IF is_delivery_policy_single(value)
                   THEN RetainOtherKinds(data, value) ELSE data
         IN  IF Len(d1) < cap
             THEN [data |-> Push(d1, ord, value), pushed |-> TRUE, value |-> NoVal]
             ELSE LET d2 == RemoveFirstEvictable(d1)
                  IN  IF Len(d2) < cap /\ delivery_policy(value.kind) \in {"Always", "Single"}
                      THEN [data |-> Push(d2, ord, value), pushed |-> TRUE,
                            value |-> NoVal]
                      ELSE [data |-> d1, pushed |-> FALSE, value |-> value]

\* Deque::try_push: the new contents, whether the value was stored, and the
\* value handed back (NoVal for None).
try_push(data, cap, ord, value) ==
    IF is_expired(value) THEN [data |-> data, pushed |-> TRUE, value |-> NoVal]
    ELSE LET d1 == IF is_delivery_policy_single(value)
                   THEN RetainOtherKinds(data, value) ELSE data
         IN  IF Len(d1) < cap
             THEN [data |-> Push(d1, ord, value), pushed |-> TRUE, value |-> NoVal]
             ELSE IF delivery_policy(value.kind) \in {"Always", "Single"}
                  THEN LET d2 == RemoveFirstEvictable(d1)
                       IN  IF Len(d2) < cap
                           THEN [data |-> Push(d2, ord, value), pushed |-> TRUE,
                                 value |-> NoVal]
                           ELSE [data |-> d2, pushed |-> FALSE, value |-> value]
                  ELSE [data |-> d1, pushed |-> FALSE, value |-> NoVal]

\* Deque::get: pops from the front until a value that is not expired.
RECURSIVE get(_)
get(data) ==
    IF data = <<>> THEN [data |-> <<>>, value |-> NoVal]
    ELSE IF ~is_expired(Head(data))
         THEN [data |-> Tail(data), value |-> Head(data)]
         ELSE get(Tail(data))

\* -------------------------------------------------------------- pchannel
SenderThreads == {"s1", "s2"}
ReceiverThreads == {"r1", "r2"}

VARIABLES
    queue,      \* PolicyChannel.queue: the deque's data, head first
    capacity,   \* Deque.capacity
    ordered,    \* Deque.ordered
    senders,    \* PolicyChannel.senders
    receivers,  \* PolicyChannel.receivers
    tx,         \* per sender thread: "live" when it owns a Sender
    rx,         \* per receiver thread: "live" when it owns a Receiver
    spc,        \* per sender thread: "idle", "waiting" (in space_available), "notified"
    rpc,        \* per receiver thread: "idle", "waiting" (in data_available), "notified"
    pending,    \* per sender thread: the value a blocked send() still holds
    last,       \* the operation that produced the current state
    nSent,      \* values handed to the channel so far (stamps value ids)
    sentKinds,  \* kinds of the values handed to the channel so far
    lastSent,   \* the value handed to the channel most recently
    got,        \* values received since the last stamped send, in order
    prog,       \* the scripted producer's position
    optStored   \* ids of the Optional values the scripted producer got stored

VARIABLES
    hub,        \* HubInner: subscriptions, default_channel_capacity
    hchan,      \* per client name: its subscription channel (queue, receivers)
    hsend,      \* per thread: its position in Hub::send / Hub::send_checked
    hlast,      \* the hub operation that produced the current state
    hlog,       \* messages handed to the hub, and those each client received
    task,       \* per task: the two sides of Builder::spawn
    ctl,        \* controller State: the AtomicI8, and the last call on it
    proc        \* the process: signal thread, watchdog, workers, clock

VARIABLES
    sup,        \* Supervisor: the task registry, its threads, join_all
    pst,        \* kill_pstree: the process tree and the signals sent to it
    ivl,        \* Interval: next_tick, period, policy; the clock; the calls
    ach,        \* pchannel_async: PolicyChannel, its futures and threads
    sem         \* Semaphore: permissions, capacity, guards, threads

VARIABLES
    sigt,       \* register_signals_with_handlers: its spawns and threads
    comm        \* comm::tcp::Tcp: stream, session_id, allow_reconnect, guards

vars == <<queue, capacity, ordered, senders, receivers, tx, rx, spc, rpc,
          pending, last, nSent, sentKinds, lastSent, got, prog,
          optStored, hub, hchan, hsend, hlast, hlog, task, ctl, proc,
          sup, pst, ivl, ach, sem, sigt, comm>>

hubVars == <<hub, hchan, hsend, hlast, hlog>>

rtVars == <<task, ctl, proc>>

extVars == <<sup, pst, ivl, ach, sem, sigt, comm>>

chanVars == <<queue, capacity, ordered, senders, receivers, tx, rx, spc, rpc,
              pending, last>>

histVars == <<nSent, sentKinds, lastSent, got>>

scriptVars == <<prog, optStored>>

Event(op, t, res, v) ==
    [op |-> op, t |-> t, res |-> res, v |-> v, qb |-> queue,
     snd |-> senders, rcv |-> receivers]

\* Condvar::notify_one: one of the waiting threads, if any, is woken.
notify_one(pcs) ==
    LET W == {t \in DOMAIN pcs : pcs[t] = "waiting"}
    IN  IF W = {} THEN {pcs} ELSE {[pcs EXCEPT ![w] = "notified"] : w \in W}

\* Condvar::notify_all
notify_all(pcs) ==
    [t \in DOMAIN pcs |-> IF pcs[t] = "waiting" THEN "notified" ELSE pcs[t]]

ChannelSendPushFirst(q, cap, ord, rcv, value) ==
    LET p == try_push(q, cap, ord, value)
    IN  IF p.value = NoVal
        THEN [res |-> IF p.pushed THEN "Ok" ELSE "Skipped", data |-> p.data,
              value |-> NoVal]
        ELSE IF rcv = 0 THEN [res |-> "Closed", data |-> p.data, value |-> NoVal]
        ELSE [res |-> "Wait", data |-> p.data, value |-> p.value]

ChannelSendNoWait(q, cap, ord, rcv, value) ==
    IF rcv = 0 THEN [res |-> "Closed", data |-> q, value |-> NoVal]
    ELSE LET p == try_push(q, cap, ord, value)
         IN  IF p.value = NoVal
             THEN [res |-> IF p.pushed THEN "Ok" ELSE "Skipped", data |-> p.data,
                   value |-> NoVal]
             ELSE [res |-> "Full", data |-> p.data, value |-> NoVal]

\* One pass of the loop of ChannelInner::send, under the mutex: "Wait" is
\* the pass that ends in space_available.wait.
ChannelSend(q, cap, ord, rcv, value) ==
    IF rcv = 0 THEN [res |-> "Closed", data |-> q, value |-> NoVal]
    ELSE LET p == try_push(q, cap, ord, value)
         IN  IF p.value = NoVal
             THEN [res |-> IF p.pushed THEN "Ok" ELSE "Skipped", data |-> p.data,
                   value |-> NoVal]
             ELSE [res |-> "Wait", data |-> p.data, value |-> p.value]

\* ChannelInner::try_send
ChannelTrySend(q, cap, ord, rcv, value) ==
    IF rcv = 0 THEN [res |-> "Closed", data |-> q, value |-> NoVal]
    ELSE LET p == try_push(q, cap, ord, value)
         IN  IF p.value = NoVal
             THEN [res |-> IF p.pushed THEN "Ok" ELSE "Skipped", data |-> p.data,
                   value |-> NoVal]
             ELSE [res |-> "Full", data |-> p.data, value |-> NoVal]

ChannelRecvClosedFirst(q, snd) ==
    IF snd = 0 THEN [res |-> "Closed", data |-> q, value |-> NoVal]
    ELSE LET g == get(q)
         IN  IF g.value # NoVal
             THEN [res |-> "Ok", data |-> g.data, value |-> g.value]
             ELSE [res |-> "Wait", data |-> g.data, value |-> NoVal]

\* One pass of the loop of ChannelInner::recv, under the mutex: "Wait" is
\* the pass that ends in data_available.wait.
ChannelRecv(q, snd) ==
    LET g == get(q)
    IN  IF g.value # NoVal THEN [res |-> "Ok", data |-> g.data, value |-> g.value]
        ELSE IF snd = 0 THEN [res |-> "Closed", data |-> g.data, value |-> NoVal]
        ELSE [res |-> "Wait", data |-> g.data, value |-> NoVal]

\* ChannelInner::try_recv
ChannelTryRecv(q, snd) ==
    LET g == get(q)
    IN  IF g.value # NoVal THEN [res |-> "Ok", data |-> g.data, value |-> g.value]
        ELSE IF snd = 0 THEN [res |-> "Closed", data |-> g.data, value |-> NoVal]
        ELSE [res |-> "Empty", data |-> g.data, value |-> NoVal]

\* ---- the channel's operations as steps of a thread
SendPass(s, v) ==
    LET o == ChannelSend(queue, capacity, ordered, receivers, v)
    IN  /\ queue' = o.data
        /\ spc' = [spc EXCEPT ![s] = IF o.res = "Wait" THEN "waiting" ELSE "idle"]
        /\ pending' = [pending EXCEPT ![s] = o.value]
        /\ IF o.res \in {"Ok", "Skipped"}
           THEN rpc' \in notify_one(rpc)
           ELSE rpc' = rpc
        /\ last' = Event("send", s, o.res, v)
        /\ UNCHANGED <<capacity, ordered, senders, receivers, tx, rx>>

\* Sender::send called by thread s
Send(s, v) ==
    /\ tx[s] = "live"
    /\ spc[s] = "idle"
    /\ SendPass(s, v)

\* send() goes on after space_available.wait has returned
SendResume(s) ==
    /\ spc[s] = "notified"
    /\ SendPass(s, pending[s])

\* Sender::try_send called by thread s
TrySend(s, v) ==
    /\ tx[s] = "live"
    /\ spc[s] = "idle"
    /\ LET o == ChannelTrySend(queue, capacity, ordered, receivers, v)
       IN  /\ queue' = o.data
           /\ IF o.res \in {"Ok", "Skipped"}
              THEN rpc' \in notify_one(rpc)
              ELSE rpc' = rpc
           /\ last' = Event("try_send", s, o.res, v)
    /\ UNCHANGED <<capacity, ordered, senders, receivers, tx, rx, spc, pending>>

RecvPass(r) ==
    LET o == ChannelRecv(queue, senders)
    IN  /\ queue' = o.data
        /\ IF o.res = "Ok"
           THEN /\ spc' \in notify_one(spc)
                /\ rpc' = [rpc EXCEPT ![r] = "idle"]
           ELSE /\ spc' = spc
                /\ rpc' = [rpc EXCEPT ![r] =
                              IF o.res = "Wait" THEN "waiting" ELSE "idle"]
        /\ last' = Event("recv", r, o.res, o.value)
        /\ UNCHANGED <<capacity, ordered, senders, receivers, tx, rx, pending>>

\* Receiver::recv called by thread r
Recv(r) ==
    /\ rx[r] = "live"
    /\ rpc[r] = "idle"
    /\ RecvPass(r)

\* recv() goes on after data_available.wait has returned
RecvResume(r) ==
    /\ rpc[r] = "notified"
    /\ RecvPass(r)

\* Receiver::try_recv called by thread r
TryRecv(r) ==
    /\ rx[r] = "live"
    /\ rpc[r] = "idle"
    /\ LET o == ChannelTryRecv(queue, senders)
       IN  /\ queue' = o.data
           /\ IF o.res = "Ok" THEN spc' \in notify_one(spc) ELSE spc' = spc
           /\ last' = Event("try_recv", r, o.res, o.value)
    /\ UNCHANGED <<capacity, ordered, senders, receivers, tx, rx, rpc, pending>>

\* Sender::clone: thread s hands a clone to thread s2
CloneSender(s, s2) ==
    /\ tx[s] = "live"
    /\ tx[s2] = "none"
    /\ senders' = senders + 1
    /\ tx' = [tx EXCEPT ![s2] = "live"]
    /\ last' = Event("clone_sender", s2, "Ok", NoVal)
    /\ UNCHANGED <<queue, capacity, ordered, receivers, rx, spc, rpc, pending>>

\* Receiver::clone
CloneReceiver(r, r2) ==
    /\ rx[r] = "live"
    /\ rx[r2] = "none"
    /\ receivers' = receivers + 1
    /\ rx' = [rx EXCEPT ![r2] = "live"]
    /\ last' = Event("clone_receiver", r2, "Ok", NoVal)
    /\ UNCHANGED <<queue, capacity, ordered, senders, tx, spc, rpc, pending>>

DropSenderNoNotify(s) ==
    /\ tx[s] = "live"
    /\ spc[s] = "idle"
    /\ senders' = senders - 1
    /\ tx' = [tx EXCEPT ![s] = "none"]
    /\ last' = Event("drop_sender", s, "Ok", NoVal)
    /\ UNCHANGED <<queue, capacity, ordered, receivers, rx, spc, rpc, pending>>

\* Drop for Sender: the last one notifies all of data_available
DropSender(s) ==
    /\ tx[s] = "live"
    /\ spc[s] = "idle"
    /\ senders' = senders - 1
    /\ tx' = [tx EXCEPT ![s] = "none"]
    /\ rpc' = IF senders' = 0 THEN notify_all(rpc) ELSE rpc
    /\ last' = Event("drop_sender", s, "Ok", NoVal)
    /\ UNCHANGED <<queue, capacity, ordered, receivers, rx, spc, pending>>

\* Drop for Receiver: the last one notifies all of data_available
DropReceiver(r) ==
    /\ rx[r] = "live"
    /\ rpc[r] = "idle"
    /\ receivers' = receivers - 1
    /\ rx' = [rx EXCEPT ![r] = "none"]
    /\ rpc' = IF receivers' = 0 THEN notify_all(rpc) ELSE rpc
    /\ last' = Event("drop_receiver", r, "Ok", NoVal)
    /\ UNCHANGED <<queue, capacity, ordered, senders, tx, spc, pending>>

\* Time passes: a queued value's TTL runs out (is_expired turns true).
ExpireQueued(i) ==
    /\ i \in 1..Len(queue)
    /\ queue[i].kind \in ExpirableKinds
    /\ ~queue[i].exp
    /\ queue' = [queue EXCEPT ![i].exp = TRUE]
    /\ last' = Event("expire", "time", "Ok", queue[i])
    /\ UNCHANGED <<capacity, ordered, senders, receivers, tx, rx, spc, rpc, pending>>

\* Time passes: the TTL of the value held by a blocked send() runs out.
ExpirePending(s) ==
    /\ spc[s] # "idle"
    /\ pending[s].kind \in ExpirableKinds
    /\ ~pending[s].exp
    /\ pending' = [pending EXCEPT ![s].exp = TRUE]
    /\ last' = Event("expire", "time", "Ok", pending[s])
    /\ UNCHANGED <<queue, capacity, ordered, senders, receivers, tx, rx, spc, rpc>>

\* pchannel::bounded / pchannel::ordered: one Sender, one Receiver
ChannelNew(caps) ==
    /\ queue = <<>>
    /\ capacity \in caps
    /\ ordered \in BOOLEAN
    /\ senders = 1
    /\ receivers = 1
    /\ tx = [s \in SenderThreads |-> IF s = "s1" THEN "live" ELSE "none"]
    /\ rx = [r \in ReceiverThreads |-> IF r = "r1" THEN "live" ELSE "none"]
    /\ spc = [s \in SenderThreads |-> "idle"]
    /\ rpc = [r \in ReceiverThreads |-> "idle"]
    /\ pending = [s \in SenderThreads |-> NoVal]
    /\ last = [op |-> "new", t |-> "main", res |-> "Ok", v |-> NoVal,
               qb |-> <<>>, snd |-> 1, rcv |-> 1]

\* ------------------------------------- the other components, as constructed
\* ---- hub (src/src/hub.rs)
ClientNames == {"a", "b", "c"}
HubThreads == {"h1", "h2"}

\* A thread that is not inside Hub::send / Hub::send_checked
IdleSend ==
    [pc |-> "idle", msg |-> NoVal, targets |-> <<>>, i |-> 0,
     checked |-> FALSE, handler |-> TRUE, clones |-> 0, log |-> <<>>]

\* A client name with no live Client: no channel
NoChannel == [q |-> <<>>, capacity |-> 0, ordered |-> FALSE, receivers |-> 0]

\* Hub::new, then set_default_channel_capacity; names: the names clients
\* will register with; senders: the sender-only Clients alive
HubNewNamed(names, caps) ==
    /\ \E c \in caps :
          hub = [subscriptions |-> <<>>, default_channel_capacity |-> c,
                 lock |-> "none", senders |-> 0]
    /\ hchan = [n \in names |-> NoChannel]
    /\ hsend = [t \in HubThreads |-> IdleSend]
    /\ hlast = [op |-> "new", t |-> "main", name |-> "", res |-> "Ok",
                msg |-> NoVal, targets |-> <<>>, log |-> <<>>, clones |-> 0,
                checked |-> FALSE, handler |-> TRUE]
    /\ hlog = [n |-> 0, sent |-> <<>>, recvd |-> [n \in names |-> <<>>]]

HubNew(caps) == HubNewNamed(ClientNames, caps)

\* ---- thread spawn (src/src/thread_rt.rs)
\* What the system answers to one spawn: whether the thread can be created,
\* the value of gettid, the global REALTIME_MODE flag and the two syscalls'
\* results; and the Builder's fields that matter.
SpawnEnvs ==
    [create : {"ok", "name_too_long", "os_error"},
     gettid : {-200, -1, 7},
     realtime : BOOLEAN,
     cpu_ids : BOOLEAN,
     priority : BOOLEAN,
     sched_setaffinity : {0, -1},
     sched_setscheduler : {0, -1},
     park_on_errors : BOOLEAN]

\* The Builder of suicide(): named "suicide", priority 99 on CPU 0,
\* park_on_errors set
SuicideEnvs ==
    {e \in SpawnEnvs : /\ e.create # "name_too_long"
                       /\ e.cpu_ids /\ e.priority /\ e.park_on_errors}

\* Before Builder::spawn is called
SpawnNew(envs) ==
    \E e \in envs :
       task = [env |-> e, par |-> "none", child |-> "none", tid |-> 0,
               ack |-> "none", err |-> "none", applied |-> {}]

\* ---- controller state (src/src/controller.rs)
ControllerStateKind ==
    {"Starting", "Active", "Running", "Stopping", "Stopped", "Unknown"}

\* `state as i8`: the enum's discriminants
AsI8(k) ==
    CASE k = "Starting" -> 0
      [] k = "Active" -> 1
      [] k = "Running" -> 2
      [] k = "Stopping" -> -1
      [] k = "Stopped" -> -100
      [] k = "Unknown" -> -128

\* State::new
StateNew ==
    ctl = [state |-> AsI8("Starting"), stored |-> "Starting",
           last |-> [op |-> "new", t |-> "main", ret |-> "none"]]

\* ---- the process of a controller with registered signals
Workers == {"w1", "w2"}

\* Controller::new, workers spawned, register_signals(shutdown_timeout)
ProcessNew(timeouts) ==
    \E d \in timeouts :
       proc = [shutdown_timeout |-> d, sig |-> "waiting", signal |-> "none",
               wd |-> "none", wdThread |-> "none", left |-> 0, slept |-> 0,
               ended |-> "no", pending |-> {}, lost |-> {},
               worker |-> [w \in Workers |-> "running"], main |-> "running"]

\* The components a specification does not use stay as constructed.
HubUnused == HubNew({1})

RtUnused ==
    /\ SpawnNew({[create |-> "ok", gettid |-> 7, realtime |-> FALSE,
                  cpu_ids |-> FALSE, priority |-> FALSE,
                  sched_setaffinity |-> 0, sched_setscheduler |-> 0,
                  park_on_errors |-> FALSE]})
    /\ StateNew
    /\ ProcessNew({0})

\* ---- the supervisor of a controller
\* The keys of Supervisor.tasks, in the order the BTreeMap iterates them
TaskNames == <<"task_a", "task_b">>

LongName == "a_task_of_16_byt"

AllNames == {TaskNames[i] : i \in DOMAIN TaskNames} \cup {LongName}

\* Supervisor::new: no task; thr lists the threads of the tasks spawned so
\* far, last.child tells what became of the thread of the last spawn
SupervisorNew ==
    sup = [tasks |-> [n \in AllNames |-> 0], thr |-> <<>>, n |-> 0,
           main |-> "running", taken |-> <<>>, took |-> {}, result |-> {},
           last |-> [op |-> "new", name |-> <<>>, res |-> "Ok",
                     child |-> "none"]]

\* ---- the processes of the system, for kill_pstree
Pids == {"root", "c1", "c2", "c3", "other"}

\* The parents the processes may have when kill_pstree is called: "root" is
\* the pid passed to it, "other" a process outside of its tree.
ParentMaps ==
    {[p \in Pids |-> CASE p = "root" -> "init"
                       [] p = "other" -> "init"
                       [] p = "c1" -> "root"
                       [] p = "c2" -> c2
                       [] p = "c3" -> c3] :
        c2 \in {"root", "c1"}, c3 \in {"c1", "c2"}}

PstreeNew(maps) ==
    \E m \in maps :
       pst = [parent |-> m, alive |-> Pids, pids |-> {},
              sent |-> [p \in Pids |-> <<>>], pc |-> "idle",
              kill_parent |-> FALSE, interval |-> FALSE, tree |-> {}]

\* ---- an Interval and the monotonic clock
MissedTickBehavior == {"Burst", "Delay", "Skip"}

\* Interval::new(period).set_missing_tick_behavior(b); next_tick is an
\* Option: None is <<>>, Some(t) is <<t>>. log lists the calls of tick.
IntervalNew(periods, behaviors) ==
    \E period \in periods, b \in behaviors :
       ivl = [next_tick |-> <<>>, period |-> period,
              missing_tick_behavior |-> b, now |-> 0, log |-> <<>>]

\* ---- a semaphore shared by threads
SemThreads == {"t1", "t2", "t3"}

\* Semaphore::new(capacity); guards counts the SemaphoreGuards a thread owns
SemaphoreNew(capacities) ==
    \E c \in capacities :
       sem = [permissions |-> 0, capacity |-> c,
              pc |-> [t \in SemThreads |-> "idle"],
              guards |-> [t \in SemThreads |-> 0],
              last |-> [op |-> "new", t |-> "main", res |-> "none",
                        used |-> 0, waiting |-> {}]]

\* ---- the async channel of pchannel_async.rs
\* The tasks of the channel tests: the task that awaits send futures, the
\* thread that calls send_blocking, and the receiver.
AchTasks == {"atx", "btx", "rx"}

AchSenders == {"atx", "btx"}

RecvModes == {"async", "blocking"}

\* What a sender sends in one turn of its loop: test_sync_send_async_recv
\* and test_sync_send_sync_recv
AchScript(mode) ==
    IF mode = "async" THEN <<"Test", "Spam">>
    ELSE <<"Test", "Spam", "Temperature">>

\* bounded(capacity) followed by tx.clone(): PolicyChannel::new with the
\* second sender counted; each sender is to send total messages; hist is
\* the record of what was stored, evicted, received and received again, of
\* the recv futures dropped, and of both senders having waited at once.
AsyncChannelNewFor(tasks, ntx, nrx, caps, modes, total) ==
    \E c \in caps, m \in modes :
       ach = [queue |-> <<>>, capacity |-> c, senders |-> ntx,
              receivers |-> nrx,
              send_fut_wakers |-> <<>>, send_fut_pending |-> {},
              recv_fut_wakers |-> <<>>, recv_fut_pending |-> {},
              next_op_id |-> 1, mode |-> m, total |-> total,
              t |-> [x \in tasks |->
                       [pc |-> "idle", fut |-> 0, queued |-> FALSE,
                        value |-> NoVal, sent |-> 0, result |-> "none"]],
              hist |-> [stored |-> {}, evicted |-> {}, received |-> {},
                        twice |-> {}, dropped |-> {}, drops |-> 0,
                        contended |-> FALSE]]

AsyncChannelNew(caps, modes, total) ==
    AsyncChannelNewFor(AchTasks, 2, 1, caps, modes, total)

\* ---- the threads of register_signals_with_handlers
\* Builder.name of the real-time handler thread and of the fallback
SigThreadNames == {"RoboPLCSigRT", "RoboPLCSig"}

\* What the system answers to the setup of a thread: is_realtime(),
\* sched_setaffinity and sched_setscheduler
SigEnvs ==
    [realtime : BOOLEAN,
     sched_setaffinity : {0, -1},
     sched_setscheduler : {0, -1}]

\* A controller before register_signals_with_handlers is called
SigRegisterNew(envs) ==
    \E e \in envs :
       sigt = [env |-> e, pc |-> "start", ret |-> "none",
               thread |-> [n \in SigThreadNames |-> "none"],
               tasks |-> {}, first |-> "none", second |-> "none",
               signal |-> "none", terminated |-> FALSE]

\* ---- a TCP client of comm::tcp
GuardIds == {"g1", "g2"}

\* Tcp::create: no stream, session_id 0, allow_reconnect true; guards holds
\* the session id of each SessionGuard alive
TcpNew ==
    comm = [stream |-> "none", session_id |-> 0, allow_reconnect |-> TRUE,
            guards |-> [g \in GuardIds |-> 0],
            last |-> [op |-> "create", res |-> "Ok", before |-> 0,
                      lost |-> FALSE, connected |-> FALSE, held |-> {}]]

MoreUnused ==
    /\ SigRegisterNew({[realtime |-> FALSE, sched_setaffinity |-> 0,
                        sched_setscheduler |-> 0]})
    /\ TcpNew

ExtUnused ==
    /\ MoreUnused
    /\ SupervisorNew
    /\ PstreeNew({[p \in Pids |-> "init"]})
    /\ IntervalNew({1}, {"Burst"})
    /\ AsyncChannelNew({1}, {"async"}, 0)
    /\ SemaphoreNew({1})

InitHist ==
    /\ nSent = 0
    /\ sentKinds = {}
    /\ lastSent = NoVal
    /\ got = <<>>

InitScript ==
    /\ prog = 0
    /\ optStored = {}

\* ---- threads using one channel freely, in any interleaving
\* The values a thread may hand to the channel: fresh, or already expired.
SendValues ==
    {Msg(k, 0) : k \in Kinds} \cup {[Msg(k, 0) EXCEPT !.exp = TRUE] : k \in ExpirableKinds}

Init == ChannelNew(1..MaxCap) /\ InitHist /\ InitScript /\ HubUnused /\ RtUnused /\ ExtUnused

Next ==
    \/ \E s \in SenderThreads, v \in SendValues : Send(s, v) /\ UNCHANGED <<histVars, scriptVars, hubVars, rtVars, extVars>>
    \/ \E s \in SenderThreads : SendResume(s) /\ UNCHANGED <<histVars, scriptVars, hubVars, rtVars, extVars>>
    \/ \E s \in SenderThreads, v \in SendValues : TrySend(s, v) /\ UNCHANGED <<histVars, scriptVars, hubVars, rtVars, extVars>>
    \/ \E r \in ReceiverThreads : Recv(r) /\ UNCHANGED <<histVars, scriptVars, hubVars, rtVars, extVars>>
    \/ \E r \in ReceiverThreads : RecvResume(r) /\ UNCHANGED <<histVars, scriptVars, hubVars, rtVars, extVars>>
    \/ \E r \in ReceiverThreads : TryRecv(r) /\ UNCHANGED <<histVars, scriptVars, hubVars, rtVars, extVars>>
    \/ \E s, s2 \in SenderThreads : CloneSender(s, s2) /\ UNCHANGED <<histVars, scriptVars, hubVars, rtVars, extVars>>
    \/ \E r, r2 \in ReceiverThreads : CloneReceiver(r, r2) /\ UNCHANGED <<histVars, scriptVars, hubVars, rtVars, extVars>>
    \/ \E s \in SenderThreads : DropSender(s) /\ UNCHANGED <<histVars, scriptVars, hubVars, rtVars, extVars>>
    \/ \E r \in ReceiverThreads : DropReceiver(r) /\ UNCHANGED <<histVars, scriptVars, hubVars, rtVars, extVars>>
    \/ \E i \in DOMAIN queue : ExpireQueued(i) /\ UNCHANGED <<histVars, scriptVars, hubVars, rtVars, extVars>>
    \/ \E s \in SenderThreads : ExpirePending(s) /\ UNCHANGED <<histVars, scriptVars, hubVars, rtVars, extVars>>

Spec == Init /\ [][Next]_vars

\* ---- the same threads with blocking calls only, under the scheduling the
\* operating system gives: a thread that a notify has woken gets the mutex
\* again and runs on.
ResumeRecv(r) == RecvResume(r) /\ UNCHANGED <<histVars, scriptVars, hubVars, rtVars, extVars>>

ResumeSend(s) == SendResume(s) /\ UNCHANGED <<histVars, scriptVars, hubVars, rtVars, extVars>>

NextBlocking ==
    \/ \E s \in SenderThreads, v \in SendValues : Send(s, v) /\ UNCHANGED <<histVars, scriptVars, hubVars, rtVars, extVars>>
    \/ \E s \in SenderThreads : ResumeSend(s)
    \/ \E r \in ReceiverThreads : Recv(r) /\ UNCHANGED <<histVars, scriptVars, hubVars, rtVars, extVars>>
    \/ \E r \in ReceiverThreads : ResumeRecv(r)
    \/ \E s, s2 \in SenderThreads : CloneSender(s, s2) /\ UNCHANGED <<histVars, scriptVars, hubVars, rtVars, extVars>>
    \/ \E r, r2 \in ReceiverThreads : CloneReceiver(r, r2) /\ UNCHANGED <<histVars, scriptVars, hubVars, rtVars, extVars>>
    \/ \E s \in SenderThreads : DropSender(s) /\ UNCHANGED <<histVars, scriptVars, hubVars, rtVars, extVars>>
    \/ \E r \in ReceiverThreads : DropReceiver(r) /\ UNCHANGED <<histVars, scriptVars, hubVars, rtVars, extVars>>
    \/ \E i \in DOMAIN queue : ExpireQueued(i) /\ UNCHANGED <<histVars, scriptVars, hubVars, rtVars, extVars>>

\* pchannel::bounded
InitBounded == Init /\ ~ordered

\* A channel made by pchannel::bounded; receivers that were notified run on.
FairSpec ==
    /\ InitBounded
    /\ [][NextBlocking]_vars
    /\ \A r \in ReceiverThreads : WF_vars(ResumeRecv(r))

\* ---- history kept beside the channel (not program state)
HistSend(v) ==
    /\ nSent' = nSent + 1
    /\ sentKinds' = sentKinds \cup {v.kind}
    /\ lastSent' = v
    /\ got' = <<>>

HistRecv ==
    /\ got' = IF last'.res \in {"Ok", "Some"} THEN Append(got, last'.v) ELSE got
    /\ UNCHANGED <<nSent, sentKinds, lastSent>>

\* The values handed over next: stamped with the next id.
StampedValues ==
    {[v EXCEPT !.id = nSent + 1] : v \in SendValues}

\* ---- the deque used on its own by one thread
\* Deque::try_push
DequeTryPush(v) ==
    /\ nSent < MaxPush
    /\ LET p == try_push(queue, capacity, ordered, v)
       IN  /\ queue' = p.data
           /\ last' = Event("try_push", "main",
                            IF p.value # NoVal THEN "Full"
                            ELSE IF p.pushed THEN "Pushed" ELSE "Skipped", v)
    /\ HistSend(v)
    /\ UNCHANGED <<capacity, ordered, senders, receivers, tx, rx, spc, rpc, pending>>

\* Deque::get
DequeGet ==
    /\ LET g == get(queue)
       IN  /\ queue' = g.data
           /\ last' = Event("get", "main",
                            IF g.value = NoVal THEN "None" ELSE "Some", g.value)
    /\ HistRecv
    /\ UNCHANGED <<capacity, ordered, senders, receivers, tx, rx, spc, rpc, pending>>

\* Deque::clear
DequeClear ==
    /\ queue # <<>>
    /\ queue' = <<>>
    /\ last' = Event("clear", "main", "Ok", NoVal)
    /\ UNCHANGED <<capacity, ordered, senders, receivers, tx, rx, spc, rpc, pending>>
    /\ UNCHANGED histVars

\* Deque::bounded(capacity).set_ordering(ordered)
InitDeque ==
    /\ ChannelNew(1..MaxPush)
    /\ InitHist
    /\ InitScript
    /\ HubUnused
    /\ ExtUnused
    /\ RtUnused

NextDeque ==
    \/ \E v \in StampedValues : DequeTryPush(v) /\ UNCHANGED <<scriptVars, hubVars, rtVars, extVars>>
    \/ DequeGet /\ UNCHANGED <<scriptVars, hubVars, rtVars, extVars>>
    \/ DequeClear /\ UNCHANGED <<scriptVars, hubVars, rtVars, extVars>>
    \/ \E i \in DOMAIN queue : ExpireQueued(i) /\ UNCHANGED <<histVars, scriptVars, hubVars, rtVars, extVars>>

SpecDeque == InitDeque /\ [][NextDeque]_vars

\* ---- one producer thread and one consumer thread on a channel, the values
\* stamped in the order they are sent
InitPair == ChannelNew(1..MaxCap) /\ InitHist /\ InitScript /\ HubUnused /\ RtUnused /\ ExtUnused

NextPair ==
    \/ \E v \in StampedValues :
          nSent < MaxPush /\ Send("s1", v) /\ HistSend(v) /\ UNCHANGED <<scriptVars, hubVars, rtVars, extVars>>
    \/ SendResume("s1") /\ UNCHANGED <<histVars, scriptVars, hubVars, rtVars, extVars>>
    \/ \E v \in StampedValues :
          nSent < MaxPush /\ TrySend("s1", v) /\ HistSend(v) /\ UNCHANGED <<scriptVars, hubVars, rtVars, extVars>>
    \/ Recv("r1") /\ HistRecv /\ UNCHANGED <<scriptVars, hubVars, rtVars, extVars>>
    \/ RecvResume("r1") /\ HistRecv /\ UNCHANGED <<scriptVars, hubVars, rtVars, extVars>>
    \/ TryRecv("r1") /\ HistRecv /\ UNCHANGED <<scriptVars, hubVars, rtVars, extVars>>
    \/ \E i \in DOMAIN queue : ExpireQueued(i) /\ UNCHANGED <<histVars, scriptVars, hubVars, rtVars, extVars>>
    \/ ExpirePending("s1") /\ UNCHANGED <<histVars, scriptVars, hubVars, rtVars, extVars>>

SpecPair == InitPair /\ [][NextPair]_vars

\* ---- test_delivery_policy_optional: a producer that sends Rounds times
\* Test, Spam, Temperature with send() and then drops its Sender, and a
\* consumer that calls recv() until it fails
ScriptKinds == <<"Test", "Spam", "Temperature">>

ScriptLen == 3 * Rounds

ScriptValue(i) == Msg(ScriptKinds[(i % 3) + 1], (i \div 3) + 1)

ScriptAdvance(v) ==
    /\ prog' = IF last'.res = "Wait" THEN prog ELSE prog + 1
    /\ optStored' = IF v.kind = "Spam" /\ last'.res = "Ok"
                    THEN optStored \cup {v.id} ELSE optStored

ProducerSend ==
    /\ prog < ScriptLen
    /\ Send("s1", ScriptValue(prog))
    /\ ScriptAdvance(ScriptValue(prog))
    /\ UNCHANGED <<histVars, hubVars, rtVars, extVars>>

ProducerResume ==
    /\ SendResume("s1")
    /\ ScriptAdvance(ScriptValue(prog))
    /\ UNCHANGED <<histVars, hubVars, rtVars, extVars>>

ProducerDrop ==
    /\ prog = ScriptLen
    /\ DropSender("s1")
    /\ UNCHANGED <<histVars, scriptVars, hubVars, rtVars, extVars>>

\* The consumer's loop has ended once recv() has returned an error, which is
\* recorded as NoVal at the end of got.
ConsumerDone == got # <<>> /\ got[Len(got)] = NoVal

ConsumerLoop ==
    /\ got' = IF last'.res = "Ok" THEN Append(got, last'.v)
              ELSE IF last'.res = "Closed" THEN Append(got, NoVal) ELSE got
    /\ UNCHANGED <<nSent, sentKinds, lastSent>>

ConsumerRecv ==
    /\ ~ConsumerDone
    /\ Recv("r1")
    /\ ConsumerLoop
    /\ UNCHANGED <<scriptVars, hubVars, rtVars, extVars>>

ConsumerResume ==
    /\ RecvResume("r1")
    /\ ConsumerLoop
    /\ UNCHANGED <<scriptVars, hubVars, rtVars, extVars>>

InitScripted ==
    /\ ChannelNew({1})
    /\ ordered = FALSE
    /\ InitHist
    /\ InitScript
    /\ HubUnused
    /\ ExtUnused
    /\ RtUnused

NextScripted ==
    \/ ProducerSend
    \/ ProducerResume
    \/ ProducerDrop
    \/ ConsumerRecv
    \/ ConsumerResume

SpecScripted == InitScripted /\ [][NextScripted]_vars

\* ------------------------------------------------------------------- hub
MaxHubSends == 2

\* ClientOptions::priority
Priorities == {10, 20, 30}

\* The condition each client registers with (event_matches!)
ClientCondition(n) ==
    CASE n = "a" -> {"M.Temperature"}
      [] n = "b" -> {"M.Temperature", "M.Humidity"}
      [] n = "c" -> {"M.Temperature", "M.Humidity", "M.Test"}
      [] n = "" -> {"M.Temperature", "M.Humidity"}

ConditionAlwaysTrue(c, message) == TRUE

\* (c.condition)(&message)
condition(c, message) == message.kind \in c.condition

\* h: the dispatch the operation belongs to (IdleSend for the others)
HubEvent(op, t, name, res, h) ==
    [op |-> op, t |-> t, name |-> name, res |-> res, msg |-> h.msg,
     targets |-> h.targets, log |-> h.log, clones |-> h.clones,
     checked |-> h.checked, handler |-> h.handler]

\* Stable insertion of a subscription into a list sorted by priority
RECURSIVE InsertSubscription(_, _)
InsertSubscription(s, x) ==
    IF s = <<>> THEN <<x>>
    ELSE IF Head(s).priority <= x.priority
         THEN <<Head(s)>> \o InsertSubscription(Tail(s), x)
         ELSE <<x>> \o s

SubscriptionsNotSorted(s) == s

\* subscriptions.sort_by(|a, b| a.priority.cmp(&b.priority)), a stable sort
RECURSIVE sort_subscriptions(_)
sort_subscriptions(s) ==
    IF s = <<>> THEN <<>>
    ELSE InsertSubscription(sort_subscriptions(SubSeq(s, 1, Len(s) - 1)), s[Len(s)])

NameNeverTaken(subs, name) == FALSE

\* subscriptions.iter().any(|client| client.name == name)
NameTaken(subs, name) == \E i \in 1..Len(subs) : subs[i].name = name

UnregisterNothing(subs, name) == subs

\* Hub::unregister: subscriptions.retain(|client| &*client.name != name)
unregister(subs, name) == SelectSeq(subs, LAMBDA c : c.name # name)

\* The targets of a send: the matching subscriptions, cloned (Arc) under
\* the hub lock. `open` turns false when the Receiver of the subscription's
\* channel is dropped.
CollectTargets(subs, message) ==
    LET m == SelectSeq(subs, LAMBDA c : condition(c, message))
    IN  [i \in 1..Len(m) |->
            [name |-> m[i].name, priority |-> m[i].priority,
             condition |-> m[i].condition, open |-> TRUE]]

GuardHeldWhileSending(t) == t

\* The MutexGuard of `self.inner.lock()` is a temporary of the statement
\* that collects the targets: the lock is free when the statement ends.
GuardAfterCollect(t) == "none"

CloneForEveryTarget(i, n) == 1

\* message.clone() for all targets but the last, which gets the original
Clones(i, n) == IF i < n THEN 1 ELSE 0

AbortsOnAnyError(checked, handler, res) == res \in {"Closed", "Skipped"}

\* The send_checked! macro: an Err from tx.send goes to error_handler, and
\* the dispatch is aborted when that returns false. Hub::send has `let _r`.
Aborts(checked, handler, res) ==
    checked /\ res \in {"Closed", "Skipped"} /\ ~handler

\* Hub::send / Hub::send_checked up to the first subscriber send
HubSend(t, message, checked, handler) ==
    /\ hsend[t].pc = "idle"
    /\ hub.lock = "none"
    /\ LET targets == CollectTargets(hub.subscriptions, message)
           h == [pc |-> "sending", msg |-> message, targets |-> targets,
                 i |-> 1, checked |-> checked, handler |-> handler,
                 clones |-> 0, log |-> <<>>]
       IN  /\ hub' = [hub EXCEPT !.lock = GuardAfterCollect(t)]
           /\ hsend' = [hsend EXCEPT ![t] =
                           IF targets = <<>> THEN IdleSend ELSE h]
           /\ hlast' = HubEvent(IF targets = <<>> THEN "send_done" ELSE "send",
                                t, "", "Ok", h)
    /\ UNCHANGED hchan

\* One pass of sub.tx.send for the current target, and what follows it when
\* the pass returns: the next target, or the end of the dispatch.
HubSendPass(t) ==
    /\ hsend[t].pc \in {"sending", "notified"}
    /\ LET h == hsend[t]
           sub == h.targets[h.i]
           n == Len(h.targets)
           c == hchan[sub.name]
           matches == condition(sub, h.msg)
           o == IF ~matches
                THEN [res |-> "None", data |-> c.q, value |-> NoVal]
                ELSE IF ~sub.open
                THEN [res |-> "Closed", data |-> <<>>, value |-> NoVal]
                ELSE ChannelSend(c.q, c.capacity, c.ordered, c.receivers, h.msg)
           clones == IF h.pc = "sending" /\ matches
                     THEN h.clones + Clones(h.i, n) ELSE h.clones
           log == IF o.res \in {"Wait", "None"} THEN h.log
                  ELSE Append(h.log, [name |-> sub.name, res |-> o.res,
                                      cloned |-> Clones(h.i, n) = 1])
           abort == Aborts(h.checked, h.handler, o.res)
           h2 == [h EXCEPT !.clones = clones, !.log = log]
       IN  /\ hchan' = IF sub.open /\ matches
                       THEN [hchan EXCEPT ![sub.name].q = o.data] ELSE hchan
           /\ IF o.res = "Wait"
              THEN /\ hsend' = [hsend EXCEPT ![t] = [h2 EXCEPT !.pc = "waiting"]]
                   /\ hlast' = HubEvent("send_wait", t, sub.name, "Wait", h2)
              ELSE IF abort \/ h.i = n
              THEN /\ hsend' = [hsend EXCEPT ![t] = IdleSend]
                   /\ hlast' = HubEvent("send_done", t, sub.name,
                                        IF abort THEN "HubSend" ELSE "Ok", h2)
              ELSE /\ hsend' = [hsend EXCEPT ![t] =
                                   [h2 EXCEPT !.pc = "sending", !.i = h.i + 1]]
                   /\ hlast' = HubEvent("send_pass", t, sub.name, o.res, h2)
    /\ UNCHANGED hub

\* Hub::register_with_options with a name, the name's condition and a
\* priority; the channel gets the default capacity and is not ordered.
HubRegister(n, p) ==
    /\ hub.lock = "none"
    /\ IF NameTaken(hub.subscriptions, n)
       THEN /\ hlast' = HubEvent("register", "user", n, "HubAlreadyRegistered",
                                 IdleSend)
            /\ UNCHANGED <<hub, hchan>>
       ELSE /\ hub' = [hub EXCEPT !.subscriptions =
                          sort_subscriptions(Append(@,
                              [name |-> n, priority |-> p,
                               condition |-> ClientCondition(n)]))]
            /\ hchan' = [hchan EXCEPT ![n] =
                            [q |-> <<>>,
                             capacity |-> hub.default_channel_capacity,
                             ordered |-> FALSE, receivers |-> 1]]
            /\ hlast' = HubEvent("register", "user", n, "Ok", IdleSend)
    /\ UNCHANGED hsend

\* The targets a thread still holds see the Receiver of n's channel go.
CloseTargets(h, n) ==
    [h EXCEPT !.targets =
        [i \in 1..Len(h.targets) |->
            IF h.targets[i].name = n
            THEN [h.targets[i] EXCEPT !.open = FALSE] ELSE h.targets[i]]]

\* Drop for Client: unregister(name), then the fields go, the Receiver
\* among them. A thread waiting in space_available of that channel is not
\* notified (Drop for Receiver notifies data_available).
ClientDrop(n) ==
    /\ hchan[n].receivers = 1
    /\ hub.lock = "none"
    /\ hub' = [hub EXCEPT !.subscriptions = unregister(@, n)]
    /\ hchan' = [hchan EXCEPT ![n] = NoChannel]
    /\ hsend' = [t \in HubThreads |-> CloseTargets(hsend[t], n)]
    /\ hlast' = HubEvent("drop", "user", n, "Ok", IdleSend)

\* The threads blocked in tx.send on the channel of client n
WaitingOn(n) ==
    {t \in HubThreads :
        /\ hsend[t].pc = "waiting"
        /\ hsend[t].targets[hsend[t].i].name = n
        /\ hsend[t].targets[hsend[t].i].open}

\* Client::try_recv; the subscription holds the channel's Sender
ClientTryRecv(n) ==
    /\ hchan[n].receivers = 1
    /\ LET o == ChannelTryRecv(hchan[n].q, 1)
       IN  /\ hchan' = [hchan EXCEPT ![n].q = o.data]
           /\ IF o.res = "Ok" /\ WaitingOn(n) # {}
              THEN \E w \in WaitingOn(n) :
                      hsend' = [hsend EXCEPT ![w].pc = "notified"]
              ELSE hsend' = hsend
           /\ hlast' = HubEvent("try_recv", n, n, o.res,
                                [IdleSend EXCEPT !.msg = o.value])
    /\ UNCHANGED hub

\* The components a hub specification does not use
ChannelUnused == ChannelNew({1}) /\ ~ordered /\ InitHist /\ InitScript

NotHub == <<chanVars, histVars, scriptVars, rtVars, extVars>>

\* Message ids are stamped with the number of sends so far.
CountSend == hlog' = [hlog EXCEPT !.n = @ + 1]

\* ---- one thread that registers clients, drops them, sends and receives,
\* one call after the other; every channel has room for all that is sent
InitHubSeq == HubNew({MaxHubSends}) /\ ChannelUnused /\ RtUnused /\ ExtUnused

NextHubSeq ==
    \/ \E k \in MessageKinds :
          /\ hlog.n < MaxHubSends
          /\ HubSend("h1", Msg(k, hlog.n + 1), FALSE, TRUE)
          /\ CountSend
          /\ UNCHANGED NotHub
    \/ HubSendPass("h1") /\ UNCHANGED <<hlog, NotHub>>
    \/ \E n \in ClientNames, p \in Priorities :
          /\ hsend["h1"].pc = "idle"
          /\ HubRegister(n, p)
          /\ UNCHANGED <<hlog, NotHub>>
    \/ \E n \in ClientNames :
          /\ hsend["h1"].pc = "idle"
          /\ ClientDrop(n)
          /\ UNCHANGED <<hlog, NotHub>>
    \/ \E n \in ClientNames :
          /\ hsend["h1"].pc = "idle"
          /\ ClientTryRecv(n)
          /\ UNCHANGED <<hlog, NotHub>>

SpecHubSeq == InitHubSeq /\ [][NextHubSeq]_vars

\* ---- thread h1 calling send_checked and thread h2 calling send, and the
\* clients "a" and "b" registered with Hub::register, dropped and read at
\* any time; channels of capacity 1
DEFAULT_PRIORITY == 100

InitHub == HubNew({1}) /\ ChannelUnused /\ RtUnused /\ ExtUnused

NextHub ==
    \/ \E k \in {"M.Temperature", "M.Humidity"}, handler \in BOOLEAN :
          /\ hlog.n < MaxHubSends
          /\ HubSend("h1", Msg(k, hlog.n + 1), TRUE, handler)
          /\ CountSend
          /\ UNCHANGED NotHub
    \/ \E k \in {"M.Temperature", "M.Humidity"} :
          /\ hlog.n < MaxHubSends
          /\ HubSend("h2", Msg(k, hlog.n + 1), FALSE, TRUE)
          /\ CountSend
          /\ UNCHANGED NotHub
    \/ \E t \in HubThreads : HubSendPass(t) /\ UNCHANGED <<hlog, NotHub>>
    \/ \E n \in {"a", "b"} :
          HubRegister(n, DEFAULT_PRIORITY) /\ UNCHANGED <<hlog, NotHub>>
    \/ \E n \in ClientNames : ClientDrop(n) /\ UNCHANGED <<hlog, NotHub>>
    \/ \E n \in ClientNames : ClientTryRecv(n) /\ UNCHANGED <<hlog, NotHub>>

SpecHub == InitHub /\ [][NextHub]_vars

\* ---- test_hub with any messages: thread h1 sends up to MaxLogged
\* messages, one send after the other, while the clients "a" and "b" are
\* registered, dropped and read at any time; no channel ever gets full
MaxLogged == 3

\* A message handed to the hub, and the clients registered at that moment
\* whose condition it matches
LogSend(message) ==
    hlog' = [hlog EXCEPT
                !.n = @ + 1,
                !.sent = Append(@,
                   [msg |-> message,
                    to |-> {hub.subscriptions[i].name :
                              i \in {j \in 1..Len(hub.subscriptions) :
                                       message.kind \in
                                          ClientCondition(hub.subscriptions[j].name)}}])]

\* What a client has got from try_recv
LogRecv(n) ==
    hlog' = IF hlast'.res = "Ok"
            THEN [hlog EXCEPT !.recvd[n] = Append(@, hlast'.msg)] ELSE hlog

\* A dropped client expects nothing any more.
LogDrop(n) ==
    hlog' = [hlog EXCEPT
                !.recvd[n] = <<>>,
                !.sent = [i \in 1..Len(@) |-> [@[i] EXCEPT !.to = @ \ {n}]]]

InitHubTest == HubNew({MaxLogged}) /\ ChannelUnused /\ RtUnused /\ ExtUnused

NextHubTest ==
    \/ \E k \in MessageKinds :
          /\ hlog.n < MaxLogged
          /\ HubSend("h1", Msg(k, hlog.n + 1), FALSE, TRUE)
          /\ LogSend(Msg(k, hlog.n + 1))
          /\ UNCHANGED NotHub
    \/ HubSendPass("h1") /\ UNCHANGED <<hlog, NotHub>>
    \/ \E n \in {"a", "b"} :
          HubRegister(n, DEFAULT_PRIORITY) /\ UNCHANGED <<hlog, NotHub>>
    \/ \E n \in ClientNames : ClientDrop(n) /\ LogDrop(n) /\ UNCHANGED NotHub
    \/ \E n \in ClientNames : ClientTryRecv(n) /\ LogRecv(n) /\ UNCHANGED NotHub

SpecHubTest == InitHubTest /\ [][NextHubTest]_vars

\* ----------------------------------------------------------- thread spawn
\* apply_thread_params: the error returned and the parameters set so far
apply_thread_params(e) ==
    IF ~e.realtime THEN [err |-> "none", applied |-> {}]
    ELSE IF e.cpu_ids /\ e.sched_setaffinity # 0
    THEN [err |-> "RTSchedSetAffinity", applied |-> {}]
    ELSE LET aff == IF e.cpu_ids THEN {"affinity"} ELSE {}
         IN  IF e.priority /\ e.sched_setscheduler # 0
             THEN [err |-> "RTSchedSetSchduler", applied |-> aff]
             ELSE [err |-> "none",
                   applied |-> aff \cup (IF e.priority THEN {"scheduler"} ELSE {})]

\* Builder::spawn up to thread_init_external: the name is checked and the
\* thread is created
BuilderSpawn ==
    /\ task.par = "none"
    /\ task' = IF task.env.create = "name_too_long"
               THEN [task EXCEPT !.par = "returned", !.err = "InvalidData"]
               ELSE IF task.env.create = "os_error"
               THEN [task EXCEPT !.par = "returned", !.err = "IO"]
               ELSE [task EXCEPT !.par = "recv_tid", !.child = "started"]

\* thread_init_internal, first half: gettid, and (tid, tx_ok) is sent
ThreadInitInternalSend ==
    /\ task.child = "started"
    /\ task' = [task EXCEPT !.child = "recv_ok", !.tid = task.env.gettid]

\* thread_init_external, once (tid, tx_ok) has arrived: the parameters are
\* applied, the answer is sent and Builder::spawn returns
thread_init_external ==
    /\ task.par = "recv_tid"
    /\ task.child = "recv_ok"
    /\ LET r == apply_thread_params(task.env)
       IN  task' =
              IF task.tid < 0
              THEN [task EXCEPT !.ack = "false", !.par = "returned",
                                !.err = "RTGetTId"]
              ELSE IF r.err # "none"
              THEN [task EXCEPT !.ack = "false", !.par = "returned",
                                !.err = r.err, !.applied = r.applied]
              ELSE [task EXCEPT !.ack = "true", !.par = "returned",
                                !.err = "Ok", !.applied = r.applied]

ThreadInitInternalIgnoresAnswer ==
    /\ task.child = "recv_ok"
    /\ task' = [task EXCEPT !.child = "body"]

\* thread_init_internal, second half: the answer has arrived; on false the
\* thread parks for ever or panics, on true it goes on to f()
ThreadInitInternalRecv ==
    /\ task.child = "recv_ok"
    /\ task.ack # "none"
    /\ task' = [task EXCEPT !.child =
                   IF task.ack = "true" THEN "body"
                   ELSE IF task.env.park_on_errors THEN "parked" ELSE "panicked"]

\* f() returns
BodyReturns ==
    /\ task.child = "body"
    /\ task' = [task EXCEPT !.child = "finished"]

NotTask == <<chanVars, histVars, scriptVars, hubVars, ctl, proc, extVars>>

InitSpawn ==
    /\ SpawnNew(SpawnEnvs)
    /\ StateNew
    /\ ProcessNew({0})
    /\ ChannelUnused
    /\ HubUnused
    /\ ExtUnused

NextSpawn ==
    \/ BuilderSpawn /\ UNCHANGED NotTask
    \/ ThreadInitInternalSend /\ UNCHANGED NotTask
    \/ thread_init_external /\ UNCHANGED NotTask
    \/ ThreadInitInternalRecv /\ UNCHANGED NotTask
    \/ BodyReturns /\ UNCHANGED NotTask

SpecSpawn == InitSpawn /\ [][NextSpawn]_vars

\* ------------------------------------------------------- controller state
\* impl From<i8> for ControllerStateKind
FromI8(v) ==
    CASE v = 0 -> "Starting"
      [] v = 1 -> "Active"
      [] v = 2 -> "Running"
      [] v = -100 -> "Stopped"
      [] OTHER -> "Unknown"

\* The derived Ord of the enum compares the discriminants.
GreaterOrEqual(a, b) == AsI8(a) >= AsI8(b)

Bool(b) == IF b THEN "true" ELSE "false"

\* State::set
StateSet(t, k) ==
    ctl' = [state |-> AsI8(k), stored |-> k,
            last |-> [op |-> "set", t |-> t, ret |-> "none"]]

\* State::get (Context::get_state)
StateGet(t) ==
    ctl' = [ctl EXCEPT !.last = [op |-> "get", t |-> t,
                                 ret |-> FromI8(ctl.state)]]

\* State::is_online (Context::is_online): self.get() >= Starting
StateIsOnline(t) ==
    ctl' = [ctl EXCEPT !.last =
               [op |-> "is_online", t |-> t,
                ret |-> Bool(GreaterOrEqual(FromI8(ctl.state), "Starting"))]]

\* Context::terminate, Controller::terminate
Terminate(t) ==
    ctl' = [state |-> AsI8("Stopping"), stored |-> "Stopping",
            last |-> [op |-> "terminate", t |-> t, ret |-> "none"]]

\* A worker's run() returns
WorkerExit(w) ==
    /\ proc.ended = "no"
    /\ proc.worker[w] = "running"
    /\ proc' = [proc EXCEPT !.worker[w] = "exited"]

\* Controller::block is called: supervisor.join_all
Block ==
    /\ proc.ended = "no"
    /\ proc.main = "running"
    /\ proc' = [proc EXCEPT !.main = "joining"]

\* join_all has returned, and block sets Stopped
BlockReturns ==
    /\ proc.ended = "no"
    /\ proc.main = "joining"
    /\ \A w \in Workers : proc.worker[w] = "exited"
    /\ proc' = [proc EXCEPT !.main = "returned"]
    /\ StateSet("main", "Stopped")

\* ---- workers and the main thread using the state beacon
NotState == <<chanVars, histVars, scriptVars, hubVars, task, extVars>>

InitController ==
    /\ RtUnused
    /\ ChannelUnused
    /\ HubUnused
    /\ ExtUnused

NextController ==
    \/ \E w \in Workers, k \in ControllerStateKind :
          proc.worker[w] = "running" /\ StateSet(w, k) /\ UNCHANGED <<proc, NotState>>
    \/ \E w \in Workers :
          proc.worker[w] = "running" /\ StateGet(w) /\ UNCHANGED <<proc, NotState>>
    \/ \E w \in Workers :
          proc.worker[w] = "running" /\ StateIsOnline(w) /\ UNCHANGED <<proc, NotState>>
    \/ \E w \in Workers :
          proc.worker[w] = "running" /\ Terminate(w) /\ UNCHANGED <<proc, NotState>>
    \/ \E w \in Workers : WorkerExit(w) /\ UNCHANGED <<ctl, NotState>>
    \/ Block /\ UNCHANGED <<ctl, NotState>>
    \/ BlockReturns /\ UNCHANGED NotState

SpecController == InitController /\ [][NextController]_vars

\* ------------------------------------------------- signals and the watchdog
MaxTimeout == 2

Signals == {"SIGTERM", "SIGINT", "SIGUSR2"}

SignalReceivedHandlerFirst(sg) ==
    /\ proc.ended = "no"
    /\ proc.sig = "waiting"
    /\ proc' = [proc EXCEPT !.signal = sg,
                            !.sig = IF sg = "SIGUSR2" THEN "reload"
                                    ELSE "shutdown_handler"]

\* The handler thread's signals.forever().next() returns a signal.
SignalReceived(sg) ==
    /\ proc.ended = "no"
    /\ proc.sig = "waiting"
    /\ proc' = [proc EXCEPT !.signal = sg,
                            !.sig = IF sg = "SIGUSR2" THEN "reload" ELSE "suicide"]

\* suicide(shutdown_timeout, true) is called: its Builder::spawn begins
SuicideSpawn ==
    /\ proc.ended = "no"
    /\ proc.sig = "suicide"
    /\ BuilderSpawn

\* The steps of the spawn of the "suicide" thread; its body is
\* suicide_myself, which starts by sleeping for the delay.
SuicideInitSend ==
    /\ proc.ended = "no"
    /\ ThreadInitInternalSend
    /\ UNCHANGED proc

SuicideInitExternal ==
    /\ proc.ended = "no"
    /\ thread_init_external
    /\ UNCHANGED proc

SuicideInitRecv ==
    /\ proc.ended = "no"
    /\ ThreadInitInternalRecv
    /\ proc' = IF task'.child = "body"
               THEN [proc EXCEPT !.wd = "sleeping", !.wdThread = "rt",
                                 !.left = proc.shutdown_timeout]
               ELSE proc

SuicideReturnsNoFallback ==
    /\ proc.ended = "no"
    /\ proc.sig = "suicide"
    /\ task.par = "returned"
    /\ proc' = [proc EXCEPT !.sig = "shutdown_handler"]

\* suicide() after Builder::spawn has returned: on an error suicide_myself
\* is started in a std::thread; the handler then calls shutdown_handler
SuicideReturns ==
    /\ proc.ended = "no"
    /\ proc.sig = "suicide"
    /\ task.par = "returned"
    /\ proc' = IF task.err # "Ok"
               THEN [proc EXCEPT !.sig = "shutdown_handler",
                                 !.wd = "sleeping", !.wdThread = "std",
                                 !.left = proc.shutdown_timeout]
               ELSE [proc EXCEPT !.sig = "shutdown_handler"]

\* The user's shutdown handler returns, and the handler thread calls
\* context.terminate() and ends.
ShutdownHandlerReturns ==
    /\ proc.ended = "no"
    /\ proc.sig = "shutdown_handler"
    /\ proc' = [proc EXCEPT !.sig = "exited"]
    /\ Terminate("sig")

\* SIGUSR2: the reload handler fails, or reload_executable replaces the
\* process image, or fails (the handler thread panics)
Reload(outcome) ==
    /\ proc.ended = "no"
    /\ proc.sig = "reload"
    /\ proc' = CASE outcome = "handler_error" -> [proc EXCEPT !.sig = "exited"]
                 [] outcome = "exec" -> [proc EXCEPT !.ended = "reloaded"]
                 [] outcome = "exec_error" -> [proc EXCEPT !.sig = "panicked"]

\* Time passes for the thread sleeping in suicide_myself.
Tick ==
    /\ proc.ended = "no"
    /\ proc.wd = "sleeping"
    /\ proc.left > 0
    /\ proc' = [proc EXCEPT !.left = @ - 1, !.slept = @ + 1]

\* suicide_myself after the sleep: kill_pstree, then SIGKILL to itself
suicide_myself ==
    /\ proc.ended = "no"
    /\ proc.wd = "sleeping"
    /\ proc.left = 0
    /\ proc' = [proc EXCEPT !.ended = "killed"]

\* ---- a controller with two workers whose signal thread is running
NotRt == <<chanVars, histVars, scriptVars, hubVars, extVars>>

InitShutdown ==
    /\ SpawnNew(SuicideEnvs)
    /\ StateNew
    /\ ProcessNew(0..MaxTimeout)
    /\ ChannelUnused
    /\ HubUnused
    /\ ExtUnused

Received(sg) == SignalReceived(sg) /\ UNCHANGED <<task, ctl, NotRt>>
SpawnStep == SuicideSpawn /\ UNCHANGED <<proc, ctl, NotRt>>
InitSendStep == SuicideInitSend /\ UNCHANGED <<ctl, NotRt>>
InitExternalStep == SuicideInitExternal /\ UNCHANGED <<ctl, NotRt>>
InitRecvStep == SuicideInitRecv /\ UNCHANGED <<ctl, NotRt>>
ReturnStep == SuicideReturns /\ UNCHANGED <<task, ctl, NotRt>>
TickStep == Tick /\ UNCHANGED <<task, ctl, NotRt>>
KillStep == suicide_myself /\ UNCHANGED <<task, ctl, NotRt>>

NextShutdown ==
    \/ \E sg \in Signals : Received(sg)
    \/ SpawnStep
    \/ InitSendStep
    \/ InitExternalStep
    \/ InitRecvStep
    \/ ReturnStep
    \/ ShutdownHandlerReturns /\ UNCHANGED <<task, NotRt>>
    \/ \E o \in {"handler_error", "exec", "exec_error"} :
          Reload(o) /\ UNCHANGED <<task, ctl, NotRt>>
    \/ TickStep
    \/ KillStep
    \/ \E w \in Workers : WorkerExit(w) /\ UNCHANGED <<task, ctl, NotRt>>
    \/ Block /\ UNCHANGED <<task, ctl, NotRt>>
    \/ BlockReturns /\ UNCHANGED <<task, NotRt>>

\* The threads of suicide() are scheduled and their sleep ends; nothing is
\* assumed of the workers, of block() and of the user's shutdown handler.
FairSpecShutdown ==
    /\ InitShutdown
    /\ [][NextShutdown]_vars
    /\ WF_vars(SpawnStep)
    /\ WF_vars(InitSendStep)
    /\ WF_vars(InitExternalStep)
    /\ WF_vars(InitRecvStep)
    /\ WF_vars(ReturnStep)
    /\ WF_vars(TickStep)
    /\ WF_vars(KillStep)

\* ---- signals that arrive at any time
TermSignals == {"SIGTERM", "SIGINT"}

\* The handler thread's closure has returned or panicked: its Signals
\* iterator has been dropped with it.
HandlerGone == proc.sig \in {"exited", "panicked"}

\* A signal is delivered to the process. While the Signals iterator lives it
\* is kept for the iterator's next(); once the closure has ended nothing of
\* this repository handles it: it is ignored, or the default action of the
\* signal ends the process.
SignalArrives(sg) ==
    /\ proc.ended = "no"
    /\ sg \notin proc.pending
    /\ sg \notin proc.lost
    /\ IF HandlerGone
       THEN \E e \in {"no", "terminated"} :
               proc' = [proc EXCEPT !.lost = @ \cup {sg}, !.ended = e]
       ELSE proc' = [proc EXCEPT !.pending = @ \cup {sg}]

\* `if let Some(sig) = signals.forever().next()`: the closure takes one
\* signal, once.
SignalsNext(sg) ==
    /\ proc.ended = "no"
    /\ proc.sig = "waiting"
    /\ sg \in proc.pending
    /\ proc' = [proc EXCEPT !.signal = sg,
                            !.pending = @ \ {sg},
                            !.sig = IF sg = "SIGUSR2" THEN "reload" ELSE "suicide"]

NextSignals ==
    \/ \E sg \in Signals : SignalArrives(sg) /\ UNCHANGED <<task, ctl, NotRt>>
    \/ \E sg \in Signals : SignalsNext(sg) /\ UNCHANGED <<task, ctl, NotRt>>
    \/ SpawnStep
    \/ InitSendStep
    \/ InitExternalStep
    \/ InitRecvStep
    \/ ReturnStep
    \/ ShutdownHandlerReturns /\ UNCHANGED <<task, NotRt>>
    \/ \E o \in {"handler_error", "exec", "exec_error"} :
          Reload(o) /\ UNCHANGED <<task, ctl, NotRt>>
    \/ TickStep
    \/ KillStep
    \/ \E w \in Workers : WorkerExit(w) /\ UNCHANGED <<task, ctl, NotRt>>
    \/ Block /\ UNCHANGED <<task, ctl, NotRt>>
    \/ BlockReturns /\ UNCHANGED <<task, NotRt>>

SpecSignals == InitShutdown /\ [][NextSignals]_vars

\* -------------------------------------------------------------- supervisor
MaxSpawns == 2

\* Builder.name, an Option<String>: None is <<>>, Some(s) is <<s>>
BuilderNames == {<<>>} \cup {<<n>> : n \in AllNames}

\* What Builder::spawn meets when it creates the thread and sets it up
SpawnOutcomes ==
    {"Ok", "Io", "RTGetTId", "RTSchedSetAffinity", "RTSchedSetSchduler"}

\* The vacant_entry! macro
vacant_entry(tasks, name) ==
    IF name = <<>> THEN "SupervisorNameNotSpecified"
    ELSE IF tasks[name[1]] # 0 THEN "SupervisorDuplicateTask"
    ELSE "Vacant"

\* Builder::spawn: try_into_thread_builder_name_and_params refuses a name
\* of more than 15 bytes before any thread is created
BuilderSpawnResult(name, outcome) ==
    IF Len(name[1]) > 15 THEN "InvalidData" ELSE outcome

\* builder.spawn has created the thread (thread_init_external may fail)
ThreadStarted(res) == res \notin {"InvalidData", "Io"}

InsertsAlways(res) == TRUE

\* `let task = builder.spawn(f)?; Ok(entry.insert(task))`
Inserts(res) == res = "Ok"

\* Supervisor::spawn (periodic: spawn_periodic, whose body is a loop)
SupervisorSpawn(name, blocking, periodic, outcome, park_on_errors) ==
    /\ sup.main # "joining"
    /\ sup.n < MaxSpawns
    /\ LET e == vacant_entry(sup.tasks, name)
           res == IF e = "Vacant" THEN BuilderSpawnResult(name, outcome) ELSE e
           started == e = "Vacant" /\ ThreadStarted(res)
           child == IF ~started THEN "none"
                    ELSE IF res = "Ok" THEN "running"
                    ELSE IF park_on_errors THEN "parked" ELSE "panicked"
           thr == IF res = "Ok"
                  THEN Append(sup.thr, [name |-> name[1], blocking |-> blocking,
                                        periodic |-> periodic, st |-> "running"])
                  ELSE sup.thr
       IN  sup' = [sup EXCEPT
                     !.n = @ + 1,
                     !.thr = thr,
                     !.tasks = IF e = "Vacant" /\ Inserts(res)
                               THEN [@ EXCEPT ![name[1]] = Len(thr)]
                               ELSE @,
                     !.last = [op |-> "spawn", name |-> name, res |-> res,
                               child |-> child]]

Ended(t) == t.st \in {"finished", "panicked"}

\* The body of a task returns or panics; the loop of a periodic task ends
\* only with a panic of its function.
TaskEnds(i, how) ==
    /\ i \in DOMAIN sup.thr
    /\ sup.thr[i].st = "running"
    /\ sup.thr[i].periodic => how = "panicked"
    /\ sup' = [sup EXCEPT !.thr[i].st = how,
                          !.last = [op |-> "task_ends", name |-> <<sup.thr[i].name>>,
                                    res |-> how, child |-> "none"]]

\* The registered threads in the order of the keys
InKeyOrder(tasks) ==
    LET reg == SelectSeq(TaskNames, LAMBDA n : tasks[n] # 0)
    IN  [i \in 1..Len(reg) |-> tasks[reg[i]]]

\* Controller::block calls join_all: mem::take(&mut self.tasks)
JoinAllTake ==
    /\ sup.main # "joining"
    /\ sup' = [sup EXCEPT
                 !.main = "joining",
                 !.taken = InKeyOrder(sup.tasks),
                 !.took = {sup.tasks[n] : n \in AllNames} \ {0},
                 !.result = {},
                 !.tasks = [n \in AllNames |-> 0],
                 !.last = [op |-> "join_all", name |-> <<>>, res |-> "Ok",
                           child |-> "none"]]

JoinsEvery(t) == TRUE

\* `if !task.is_blocking()`
Joins(t) == ~t.blocking

\* One pass of the loop of join_all: task.join() returns when the thread
\* has ended; a blocking task is dropped without a join.
JoinAllNext ==
    /\ sup.main = "joining"
    /\ sup.taken # <<>>
    /\ LET i == Head(sup.taken)
           t == sup.thr[i]
       IN  /\ Joins(t) => Ended(t)
           /\ sup' = [sup EXCEPT
                        !.taken = Tail(@),
                        !.result = IF Joins(t) THEN @ \cup {t.name} ELSE @,
                        !.last = [op |-> IF Joins(t) THEN "join" ELSE "skip",
                                  name |-> <<t.name>>, res |-> t.st,
                                  child |-> "none"]]

\* join_all returns and Controller::block sets the state to Stopped
ControllerBlockReturns ==
    /\ sup.main = "joining"
    /\ sup.taken = <<>>
    /\ sup' = [sup EXCEPT !.main = "returned",
                          !.last = [op |-> "block_returns", name |-> <<>>,
                                    res |-> "Ok", child |-> "none"]]
    /\ StateSet("main", "Stopped")

\* ---- a controller's main thread spawning tasks and blocking
NotSup == <<chanVars, histVars, scriptVars, hubVars, task, proc,
            pst, ivl, ach, sem, sigt, comm>>

InitSupervisor ==
    /\ SupervisorNew
    /\ PstreeNew({[p \in Pids |-> "init"]})
    /\ IntervalNew({1}, {"Burst"})
    /\ AsyncChannelNew({1}, {"async"}, 0)
    /\ SemaphoreNew({1})
    /\ RtUnused
    /\ MoreUnused
    /\ ChannelUnused
    /\ HubUnused

NextSupervisor ==
    \/ \E name \in BuilderNames, blocking, periodic, park \in BOOLEAN,
          outcome \in SpawnOutcomes :
          SupervisorSpawn(name, blocking, periodic, outcome, park)
             /\ UNCHANGED <<ctl, NotSup>>
    \/ \E i \in 1..MaxSpawns, how \in {"finished", "panicked"} :
          TaskEnds(i, how) /\ UNCHANGED <<ctl, NotSup>>
    \/ JoinAllTake /\ UNCHANGED <<ctl, NotSup>>
    \/ JoinAllNext /\ UNCHANGED <<ctl, NotSup>>
    \/ ControllerBlockReturns /\ UNCHANGED NotSup

SpecSupervisor == InitSupervisor /\ [][NextSupervisor]_vars

\* ------------------------------------------------------------- kill_pstree
\* get_child_pids_recursive over the processes sys.processes() lists
RECURSIVE get_child_pids_recursive(_, _, _)
get_child_pids_recursive(pid, q, depth) ==
    IF depth = 0 THEN {}
    ELSE LET children == {i \in q.alive : q.parent[i] = pid}
         IN  children \cup
                UNION {get_child_pids_recursive(i, q, depth - 1) : i \in children}

\* kill_process_tree: pids is the caller's set, which it keeps between its
\* two calls; signal::kill is attempted for every pid of the set
kill_process_tree(q, signal, kill_parent) ==
    LET pids == q.pids \cup (IF kill_parent THEN {"root"} ELSE {})
                       \cup get_child_pids_recursive("root", q, Cardinality(Pids))
    IN  [q EXCEPT !.pids = pids,
                  !.sent = [p \in Pids |->
                               IF p \in pids /\ p \in q.alive
                               THEN Append(q.sent[p], signal) ELSE q.sent[p]]]

\* The signal of the second call of kill_process_tree in kill_pstree
SecondSignal == "SIGTERM"

\* kill_pstree(pid, kill_parent, term_kill_interval) up to its return, or up
\* to its sleep when there is an interval
KillPstree(kill_parent, interval) ==
    /\ pst.pc = "idle"
    /\ LET q == [pst EXCEPT !.kill_parent = kill_parent,
                            !.interval = interval,
                            !.tree = {"root"} \cup
                               get_child_pids_recursive("root", pst,
                                                        Cardinality(Pids))]
       IN  pst' = IF interval
                  THEN [kill_process_tree(q, "SIGTERM", kill_parent)
                           EXCEPT !.pc = "sleeping"]
                  ELSE [kill_process_tree(q, SecondSignal, kill_parent)
                           EXCEPT !.pc = "returned"]

\* kill_pstree after thread::sleep(delay)
KillPstreeAfterSleep ==
    /\ pst.pc = "sleeping"
    /\ pst' = [kill_process_tree(pst, SecondSignal, pst.kill_parent)
                  EXCEPT !.pc = "returned"]

\* A process that has got a signal ends; its children get init as parent.
\* SIGTERM may be handled or ignored: the process then stays.
ProcessExits(p) ==
    /\ p \in pst.alive
    /\ pst.sent[p] # <<>>
    /\ pst.pc # "returned"
    /\ pst' = [pst EXCEPT !.alive = @ \ {p},
                          !.parent = [c \in Pids |->
                                         IF pst.parent[c] = p THEN "init"
                                         ELSE pst.parent[c]]]

NotPst == <<chanVars, histVars, scriptVars, hubVars, rtVars,
            sup, ivl, ach, sem, sigt, comm>>

InitPstree ==
    /\ PstreeNew(ParentMaps)
    /\ SupervisorNew
    /\ IntervalNew({1}, {"Burst"})
    /\ AsyncChannelNew({1}, {"async"}, 0)
    /\ SemaphoreNew({1})
    /\ RtUnused
    /\ MoreUnused
    /\ ChannelUnused
    /\ HubUnused

NextPstree ==
    \/ \E kill_parent, interval \in BOOLEAN :
          KillPstree(kill_parent, interval) /\ UNCHANGED NotPst
    \/ KillPstreeAfterSleep /\ UNCHANGED NotPst
    \/ \E p \in Pids : ProcessExits(p) /\ UNCHANGED NotPst

SpecPstree == InitPstree /\ [][NextPstree]_vars

\* ---------------------------------------------------------------- interval
MaxTime == 13
MaxTicks == 5

Periods == {2, 3}

\* thread::sleep returns at the end of the duration or later
Oversleep == {0, 1}

BurstToNow(next_tick, now, period) == now + period

\* MissedTickBehavior::Burst: next_tick + self.period
BurstTo(next_tick, now, period) == next_tick + period

\* MissedTickBehavior::Delay: now + self.period
DelayTo(next_tick, now, period) == now + period

SkipOnePeriod(next_tick, now, period) == next_tick + period

\* MissedTickBehavior::Skip: while next_tick <= now { next_tick += period }
RECURSIVE SkipTo(_, _, _)
SkipTo(next_tick, now, period) ==
    IF next_tick <= now THEN SkipTo(next_tick + period, now, period)
    ELSE next_tick

\* Interval::tick called when the clock shows now, as the record of the
\* call: what it returns, the next_tick it leaves, and for how long it
\* asks thread::sleep
tick(i, now) ==
    IF i.next_tick = <<>>
    THEN [ret |-> TRUE, next_tick |-> <<now + i.period>>, to_sleep |-> 0]
    ELSE LET next_tick == i.next_tick[1]
         IN  IF now < next_tick
             THEN [ret |-> TRUE, next_tick |-> <<next_tick + i.period>>,
                   to_sleep |-> next_tick - now]
             ELSE IF now = next_tick
             THEN [ret |-> TRUE, next_tick |-> i.next_tick, to_sleep |-> 0]
             ELSE [ret |-> FALSE,
                   next_tick |->
                      CASE i.missing_tick_behavior = "Burst" ->
                              <<BurstTo(next_tick, now, i.period)>>
                        [] i.missing_tick_behavior = "Delay" ->
                              <<DelayTo(next_tick, now, i.period)>>
                        [] i.missing_tick_behavior = "Skip" ->
                              <<SkipTo(next_tick, now, i.period)>>,
                   to_sleep |-> 0]

\* A call of tick, with its sleep: the clock is read once, at the call
IntervalTick(late) ==
    /\ Len(ivl.log) < MaxTicks
    /\ LET r == tick(ivl, ivl.now)
           woke == IF r.to_sleep > 0 THEN ivl.now + r.to_sleep + late
                   ELSE ivl.now
       IN  /\ woke <= MaxTime
           /\ r.to_sleep = 0 => late = 0
           /\ ivl' = [ivl EXCEPT
                        !.next_tick = r.next_tick,
                        !.now = woke,
                        !.log = Append(@, [at |-> ivl.now,
                                           before |-> ivl.next_tick,
                                           ret |-> r.ret,
                                           after |-> r.next_tick,
                                           to_sleep |-> r.to_sleep,
                                           woke |-> woke])]

\* Time passes between two calls of tick
ClockAdvances ==
    /\ ivl.now < MaxTime
    /\ ivl' = [ivl EXCEPT !.now = @ + 1]

NotIvl == <<chanVars, histVars, scriptVars, hubVars, rtVars,
            sup, pst, ach, sem, sigt, comm>>

InitInterval ==
    /\ IntervalNew(Periods, MissedTickBehavior)
    /\ SupervisorNew
    /\ PstreeNew({[p \in Pids |-> "init"]})
    /\ AsyncChannelNew({1}, {"async"}, 0)
    /\ SemaphoreNew({1})
    /\ RtUnused
    /\ MoreUnused
    /\ ChannelUnused
    /\ HubUnused

NextInterval ==
    \/ \E late \in Oversleep : IntervalTick(late) /\ UNCHANGED NotIvl
    \/ ClockAdvances /\ UNCHANGED NotIvl

SpecInterval == InitInterval /\ [][NextInterval]_vars

\* --------------------------------------------------------------- semaphore
MaxPermits == 2

SemEvent(op, t, res) ==
    [op |-> op, t |-> t, res |-> res, used |-> sem.permissions,
     waiting |-> {w \in SemThreads : sem.pc[w] = "waiting"}]

\* Semaphore::try_acquire
SemTryAcquire(t) ==
    /\ sem.pc[t] = "idle"
    /\ sem' = IF sem.permissions = sem.capacity
              THEN [sem EXCEPT !.last = SemEvent("try_acquire", t, "None")]
              ELSE [sem EXCEPT !.permissions = @ + 1,
                               !.guards[t] = @ + 1,
                               !.last = SemEvent("try_acquire", t, "Some")]

\* One pass of the loop of Semaphore::acquire, under the mutex: wait in cv
\* while the count is at the capacity, else take a permission
AcquirePass(t, op) ==
    sem' = IF sem.permissions = sem.capacity
           THEN [sem EXCEPT !.pc[t] = "waiting",
                            !.last = SemEvent(op, t, "Wait")]
           ELSE [sem EXCEPT !.pc[t] = "idle",
                            !.permissions = @ + 1,
                            !.guards[t] = @ + 1,
                            !.last = SemEvent(op, t, "Guard")]

\* Semaphore::acquire is called
SemAcquire(t) ==
    /\ sem.pc[t] = "idle"
    /\ AcquirePass(t, "acquire")

\* A thread woken in cv.wait has the mutex again
SemAcquireResume(t) ==
    /\ sem.pc[t] = "notified"
    /\ AcquirePass(t, "acquire_resume")

WakeNobody(pcs) == {pcs}

\* self.cv.notify_one() of SemaphoreInner::release
WakeOnRelease(pcs) == notify_one(pcs)

\* Drop for SemaphoreGuard: SemaphoreInner::release
GuardDrop(t) ==
    /\ sem.pc[t] = "idle"
    /\ sem.guards[t] > 0
    /\ \E pcs \in WakeOnRelease(sem.pc) :
          sem' = [sem EXCEPT !.permissions = @ - 1,
                             !.guards[t] = @ - 1,
                             !.pc = pcs,
                             !.last = SemEvent("drop", t, "none")]

NotSem == <<chanVars, histVars, scriptVars, hubVars, rtVars,
            sup, pst, ivl, ach, sigt, comm>>

InitSemaphore ==
    /\ SemaphoreNew(0..MaxPermits)
    /\ SupervisorNew
    /\ PstreeNew({[p \in Pids |-> "init"]})
    /\ IntervalNew({1}, {"Burst"})
    /\ AsyncChannelNew({1}, {"async"}, 0)
    /\ RtUnused
    /\ MoreUnused
    /\ ChannelUnused
    /\ HubUnused

NextSemaphore ==
    \/ \E t \in SemThreads : SemTryAcquire(t) /\ UNCHANGED NotSem
    \/ \E t \in SemThreads : SemAcquire(t) /\ UNCHANGED NotSem
    \/ \E t \in SemThreads : SemAcquireResume(t) /\ UNCHANGED NotSem
    \/ \E t \in SemThreads : GuardDrop(t) /\ UNCHANGED NotSem

SpecSemaphore == InitSemaphore /\ [][NextSemaphore]_vars

\* ----------------------------------------------------------- async channel
MaxAsyncSends == 2
MaxDrops == 3

\* An entry of send_fut_wakers or recv_fut_wakers: Some((waker, id)), the
\* waker being the one of the task that polled, or None for a thread that
\* waits on the condvar
FutWaker(id, x) == [id |-> id, task |-> x]
SyncWaker == [id |-> 0, task |-> "none"]

Range(q) == {q[i] : i \in DOMAIN q}

\* How many messages a sender sends, taken in order from the turns of its
\* loop
AchTotal(a) == a.total

AchValueAt(a, x, n) ==
    LET sc == AchScript(a.mode)
    IN  Msg(sc[(n % Len(sc)) + 1], (IF x = "atx" THEN 0 ELSE 10) + n + 1)

AchValue(a, x) == AchValueAt(a, x, a.t[x].sent)

\* Waker::wake: the task that waits for it is scheduled to be polled
wake(a, x) ==
    IF x \in DOMAIN a.t /\ a.t[x].pc = "pending"
    THEN [a EXCEPT !.t[x].pc = "woken"]
    ELSE a

\* Condvar::notify_one and notify_all on the threads that wait in S
CvNotifyOne(a, S) ==
    LET W == {x \in S : a.t[x].pc = "waiting"}
    IN  IF W = {} THEN {a}
        ELSE {[a EXCEPT !.t[w].pc = "notified"] : w \in W}

CvNotifyAll(a, S) ==
    [a EXCEPT !.t = [x \in DOMAIN a.t |->
                       IF x \in S /\ @[x].pc = "waiting"
                       THEN [@[x] EXCEPT !.pc = "notified"]
                       ELSE @[x]]]

WakeAll(a, tasks) ==
    [a EXCEPT !.t = [x \in DOMAIN a.t |->
                       IF x \in tasks /\ @[x].pc = "pending"
                       THEN [@[x] EXCEPT !.pc = "woken"]
                       ELSE @[x]]]

\* The threads that wait on space_available and on data_available
SpaceWaiters == AchSenders
DataWaiters == {"rx"}

WakeNextSendFutOnly(a) ==
    IF a.send_fut_wakers = <<>> THEN {a}
    ELSE LET w == Head(a.send_fut_wakers)
             a1 == [a EXCEPT !.send_fut_wakers = Tail(@)]
         IN  IF w.id # 0
             THEN {wake([a1 EXCEPT !.send_fut_pending = @ \cup {w.id}], w.task)}
             ELSE {a1}

\* PolicyChannel::wake_next_send
wake_next_send(a) ==
    IF a.send_fut_wakers = <<>> THEN {a}
    ELSE LET w == Head(a.send_fut_wakers)
             a1 == [a EXCEPT !.send_fut_wakers = Tail(@)]
         IN  IF w.id # 0
             THEN {wake([a1 EXCEPT !.send_fut_pending = @ \cup {w.id}], w.task)}
             ELSE CvNotifyOne(a1, SpaceWaiters)

\* PolicyChannel::wake_all_sends
wake_all_sends(a) ==
    CvNotifyAll(WakeAll([a EXCEPT !.send_fut_wakers = <<>>],
                        {w.task : w \in Range(a.send_fut_wakers)}),
                SpaceWaiters)

\* PolicyChannel::wake_next_recv
wake_next_recv(a) ==
    IF a.recv_fut_wakers = <<>> THEN {a}
    ELSE LET w == Head(a.recv_fut_wakers)
             a1 == [a EXCEPT !.recv_fut_wakers = Tail(@)]
         IN  IF w.id # 0
             THEN {wake([a1 EXCEPT !.recv_fut_pending = @ \cup {w.id}], w.task)}
             ELSE CvNotifyOne(a1, DataWaiters)

\* PolicyChannel::wake_all_recvs
wake_all_recvs(a) ==
    CvNotifyAll(WakeAll([a EXCEPT !.recv_fut_wakers = <<>>],
                        {w.task : w \in Range(a.recv_fut_wakers)}),
                DataWaiters)

\* VecDeque::remove at the position of the first waker with the id
RemoveWaker(q, id) ==
    LET hits == {i \in DOMAIN q : q[i].id = id}
    IN  IF hits = {} THEN q
        ELSE LET i == CHOOSE j \in hits : \A h \in hits : j <= h
             IN  SubSeq(q, 1, i - 1) \o SubSeq(q, i + 1, Len(q))

RecvFutDropTakesItem(a, id) ==
    LET a1 == [a EXCEPT !.recv_fut_wakers = RemoveWaker(@, id),
                        !.queue = IF @ = <<>> THEN @ ELSE Tail(@)]
    IN  IF id \in a1.recv_fut_pending
        THEN wake_next_recv([a1 EXCEPT !.recv_fut_pending = @ \ {id}])
        ELSE {a1}

\* PolicyChannel::notify_recv_fut_drop
notify_recv_fut_drop(a, id) ==
    LET a1 == [a EXCEPT !.recv_fut_wakers = RemoveWaker(@, id)]
    IN  IF id \in a1.recv_fut_pending
        THEN wake_next_recv([a1 EXCEPT !.recv_fut_pending = @ \ {id}])
        ELSE {a1}

\* PolicyChannel::notify_send_fut_drop
notify_send_fut_drop(a, id) ==
    LET a1 == [a EXCEPT !.send_fut_wakers = RemoveWaker(@, id)]
    IN  IF id \in a1.send_fut_pending
        THEN wake_next_send([a1 EXCEPT !.send_fut_pending = @ \ {id}])
        ELSE {a1}

\* pc.queue.try_push(value) as the senders call it: the queue afterwards,
\* with the record of what was stored and what the push removed
AchPush(a, r, value) ==
    [a EXCEPT !.queue = r.data,
              !.hist.stored = IF r.pushed /\ r.value = NoVal
                              THEN @ \cup {value} ELSE @,
              !.hist.evicted = @ \cup (Range(a.queue) \ Range(r.data))]

\* A call of a sender or of the receiver has returned res
AchReturn(a, x, res) ==
    [a EXCEPT !.t[x] = [@ EXCEPT !.pc = "idle", !.fut = 0, !.queued = FALSE,
                                 !.value = NoVal, !.result = res]]

AchSent(a, x, res) == [AchReturn(a, x, res) EXCEPT !.t[x].sent = @ + 1]

AchBlocked(a, x, pc) ==
    [a EXCEPT !.t[x].pc = pc,
              !.hist.contended =
                  @ \/ /\ x \in AchSenders
                       /\ \E y \in AchSenders \ {x} :
                             a.t[y].pc \in {"pending", "waiting"}]

\* The loop of a sender goes on: it has values left and no call of it
\* has failed with ChannelClosed (the unwrap of the tests)
SenderGoesOn(x) ==
    /\ ach.t[x].pc = "idle"
    /\ ach.t[x].result # "ChannelClosed"
    /\ ach.t[x].sent < AchTotal(ach)

\* Sender::send: the future is made, with the next operation id
SendCall(x) ==
    /\ SenderGoesOn(x)
    /\ ach' = [ach EXCEPT !.next_op_id = @ + 1,
                          !.t[x] = [@ EXCEPT !.pc = "created",
                                             !.fut = ach.next_op_id,
                                             !.queued = FALSE,
                                             !.value = AchValue(ach, x)]]

\* Future::poll for Send
SendFutPoll(x) ==
    /\ LET me == ach.t[x]
           a0 == IF me.queued
                 THEN [ach EXCEPT !.send_fut_pending = @ \ {me.fut}]
                 ELSE ach
           r == try_push(a0.queue, a0.capacity, FALSE, me.value)
           pend == AchBlocked([a0 EXCEPT
                                 !.t[x].queued = TRUE,
                                 !.send_fut_wakers =
                                     Append(@, FutWaker(me.fut, x))],
                              x, "pending")
       IN  IF a0.receivers = 0
           THEN ach' = AchReturn(a0, x, "ChannelClosed")
           ELSE IF a0.send_fut_wakers = <<>> \/ me.queued
                THEN IF r.value = NoVal
                     THEN ach' \in wake_next_recv(
                              AchSent(AchPush(a0, r, me.value), x,
                                      IF r.pushed THEN "Ok"
                                      ELSE "ChannelSkipped"))
                     ELSE ach' = [pend EXCEPT !.queue = r.data]
                ELSE ach' = pend

\* The poll of the await and the poll that follows a wake
SendPoll(x) ==
    /\ ach.t[x].pc \in {"created", "woken"}
    /\ SendFutPoll(x)

\* One pass of the loop of Sender::send_blocking, under the lock
SendBlockingPass(x, value) ==
    LET r == try_push(ach.queue, ach.capacity, FALSE, value)
    IN  IF ach.receivers = 0
        THEN ach' = AchReturn(ach, x, "ChannelClosed")
        ELSE IF r.value = NoVal
             THEN ach' \in wake_next_recv(
                      AchSent(AchPush(ach, r, value), x,
                              IF r.pushed THEN "Ok" ELSE "ChannelSkipped"))
             ELSE ach' = AchBlocked(
                      [ach EXCEPT !.queue = r.data,
                                  !.t[x].value = value,
                                  !.send_fut_wakers = Append(@, SyncWaker)],
                      x, "waiting")

\* Sender::send_blocking is called
SendBlocking(x) ==
    /\ SenderGoesOn(x)
    /\ SendBlockingPass(x, AchValue(ach, x))

\* The thread woken in space_available.wait has the lock again
SendBlockingResume(x) ==
    /\ ach.t[x].pc = "notified"
    /\ SendBlockingPass(x, ach.t[x].value)

\* Drop for Sender, when the task that owns it ends
AchDropSender(x) ==
    /\ ach.t[x].pc = "idle"
    /\ ach.t[x].result = "ChannelClosed" \/ ach.t[x].sent = AchTotal(ach)
    /\ LET a1 == [ach EXCEPT !.senders = @ - 1, !.t[x].pc = "done"]
       IN  ach' = IF a1.senders = 0 THEN wake_all_recvs(a1) ELSE a1

\* The loop of the receiver goes on until a call fails
ReceiverGoesOn(x) ==
    /\ ach.t[x].pc = "idle"
    /\ ach.t[x].result # "ChannelClosed"

\* Receiver::recv: the future is made, with the next operation id
RecvCall(x) ==
    /\ ReceiverGoesOn(x)
    /\ ach.mode = "async"
    /\ ach' = [ach EXCEPT !.next_op_id = @ + 1,
                          !.t[x] = [@ EXCEPT !.pc = "created",
                                             !.fut = ach.next_op_id,
                                             !.queued = FALSE]]

AchReceived(a, g) ==
    [a EXCEPT !.queue = g.data,
              !.hist.received = @ \cup {g.value},
              !.hist.twice = IF g.value \in a.hist.received
                             THEN @ \cup {g.value} ELSE @]

\* Future::poll for Recv
RecvFutPoll(x) ==
    /\ LET me == ach.t[x]
           a0 == IF me.queued
                 THEN [ach EXCEPT !.recv_fut_pending = @ \ {me.fut}]
                 ELSE ach
           g == get(a0.queue)
           pend == AchBlocked([a0 EXCEPT
                                 !.t[x].queued = TRUE,
                                 !.recv_fut_wakers =
                                     Append(@, FutWaker(me.fut, x))],
                              x, "pending")
       IN  IF a0.recv_fut_wakers = <<>> \/ me.queued
           THEN IF g.value # NoVal
                THEN ach' \in wake_next_send(
                         AchReturn(AchReceived(a0, g), x, "Ok"))
                ELSE IF a0.senders = 0
                     THEN ach' = AchReturn(a0, x, "ChannelClosed")
                     ELSE ach' = pend
           ELSE ach' = pend

\* The poll of the await and the poll that follows a wake
RecvPoll(x) ==
    /\ ach.t[x].pc \in {"created", "woken"}
    /\ RecvFutPoll(x)

\* Drop for Recv before it has completed: never polled, queued, or woken
\* and not polled again
RecvFutDrop(x) ==
    /\ ach.t[x].pc \in {"created", "pending", "woken"}
    /\ ach.hist.drops < MaxDrops
    /\ LET me == ach.t[x]
           a1 == [ach EXCEPT !.t[x] = [@ EXCEPT !.pc = "idle", !.fut = 0,
                                                !.queued = FALSE],
                             !.hist.dropped = @ \cup {me.pc},
                             !.hist.drops = @ + 1]
       IN  IF me.queued
           THEN ach' \in notify_recv_fut_drop(a1, me.fut)
           ELSE ach' = a1

\* One pass of the loop of Receiver::recv_blocking, under the lock
RecvBlockingPass(x) ==
    LET g == get(ach.queue)
    IN  IF g.value # NoVal
        THEN ach' \in wake_next_send(AchReturn(AchReceived(ach, g), x, "Ok"))
        ELSE IF ach.senders = 0
             THEN ach' = AchReturn(ach, x, "ChannelClosed")
             ELSE ach' = AchBlocked(
                      [ach EXCEPT !.recv_fut_wakers = Append(@, SyncWaker)],
                      x, "waiting")

\* Receiver::recv_blocking is called
RecvBlocking(x) ==
    /\ ReceiverGoesOn(x)
    /\ ach.mode = "blocking"
    /\ RecvBlockingPass(x)

\* The thread woken in data_available.wait has the lock again
RecvBlockingResume(x) ==
    /\ ach.t[x].pc = "notified"
    /\ RecvBlockingPass(x)

\* Drop for Receiver, when the task that owns it ends
AchDropReceiver(x) ==
    /\ ach.t[x].pc = "idle"
    /\ ach' = wake_all_sends([ach EXCEPT !.receivers = @ - 1,
                                         !.t[x].pc = "done"])

NotAch == <<chanVars, histVars, scriptVars, hubVars, rtVars,
            sup, pst, ivl, sem, sigt, comm>>

InitAsync ==
    /\ AsyncChannelNew(1..MaxCap, RecvModes, MaxAsyncSends)
    /\ SemaphoreNew({1})
    /\ SupervisorNew
    /\ PstreeNew({[p \in Pids |-> "init"]})
    /\ IntervalNew({1}, {"Burst"})
    /\ RtUnused
    /\ MoreUnused
    /\ ChannelUnused
    /\ HubUnused

\* The two tests: the receiver receives until ChannelClosed and is dropped
\* then
NextAsyncTest ==
    \/ SendCall("atx") /\ UNCHANGED NotAch
    \/ SendPoll("atx") /\ UNCHANGED NotAch
    \/ SendBlocking("btx") /\ UNCHANGED NotAch
    \/ SendBlockingResume("btx") /\ UNCHANGED NotAch
    \/ \E x \in AchSenders : AchDropSender(x) /\ UNCHANGED NotAch
    \/ RecvCall("rx") /\ UNCHANGED NotAch
    \/ RecvPoll("rx") /\ UNCHANGED NotAch
    \/ RecvBlocking("rx") /\ UNCHANGED NotAch
    \/ RecvBlockingResume("rx") /\ UNCHANGED NotAch
    \/ ach.t["rx"].result = "ChannelClosed" /\ AchDropReceiver("rx")
          /\ UNCHANGED NotAch

\* The same tasks with a receiver that may drop a recv future at any point
\* and may go away at any time
NextAsync ==
    \/ SendCall("atx") /\ UNCHANGED NotAch
    \/ SendPoll("atx") /\ UNCHANGED NotAch
    \/ SendBlocking("btx") /\ UNCHANGED NotAch
    \/ SendBlockingResume("btx") /\ UNCHANGED NotAch
    \/ \E x \in AchSenders : AchDropSender(x) /\ UNCHANGED NotAch
    \/ RecvCall("rx") /\ UNCHANGED NotAch
    \/ RecvPoll("rx") /\ UNCHANGED NotAch
    \/ RecvFutDrop("rx") /\ UNCHANGED NotAch
    \/ RecvBlocking("rx") /\ UNCHANGED NotAch
    \/ RecvBlockingResume("rx") /\ UNCHANGED NotAch
    \/ AchDropReceiver("rx") /\ UNCHANGED NotAch

SpecAsync == InitAsync /\ [][NextAsync]_vars

\* The steps of each of the three in the tests
AtxStep ==
    /\ \/ SendCall("atx") \/ SendPoll("atx") \/ AchDropSender("atx")
    /\ UNCHANGED NotAch

BtxStep ==
    /\ \/ SendBlocking("btx") \/ SendBlockingResume("btx")
       \/ AchDropSender("btx")
    /\ UNCHANGED NotAch

RxStep ==
    /\ \/ RecvCall("rx") \/ RecvPoll("rx") \/ RecvBlocking("rx")
       \/ RecvBlockingResume("rx")
       \/ ach.t["rx"].result = "ChannelClosed" /\ AchDropReceiver("rx")
    /\ UNCHANGED NotAch

\* Every task and thread that can take a step is scheduled in the end
FairSpecAsyncTest ==
    /\ InitAsync
    /\ [][NextAsyncTest]_vars
    /\ WF_vars(AtxStep)
    /\ WF_vars(BtxStep)
    /\ WF_vars(RxStep)

\* ------------------------------------------------------------ properties
LiveSenders == {s \in SenderThreads : tx[s] = "live"}
LiveReceivers == {r \in ReceiverThreads : rx[r] = "live"}

\* The entries of a queue that a receive can still deliver.
Deliverable(q) == SelectSeq(q, LAMBDA d : ~is_expired(d))

\* The queue as the Single-class cleanup of try_push leaves it for value v.
AfterCleanup(q, v) ==
    IF is_delivery_policy_single(v) THEN RetainOtherKinds(q, v) ELSE q

\* C1: once the last Receiver has been dropped no sender is left waiting in
\* space_available: every sender blocked in send() has been woken (and its
\* next pass returns ChannelClosed).
C1_BlockedSendersWokenOnClose ==
    receivers = 0 => \A s \in SenderThreads : spc[s] # "waiting"

\* C3: a receive returns ChannelClosed only with no sender left and nothing
\* deliverable queued; whatever is deliverable is delivered first, also
\* after the last sender is gone; try_recv with a live sender (clones
\* counted) and nothing deliverable returns ChannelEmpty.
C3_ClosedOnlyWhenDrained ==
    /\ senders = Cardinality(LiveSenders)
    /\ last.op \in {"recv", "try_recv"} =>
          /\ last.res = "Closed" => last.snd = 0 /\ Deliverable(last.qb) = <<>>
          /\ Deliverable(last.qb) # <<>> =>
                last.res = "Ok" /\ last.v = Head(Deliverable(last.qb))
          /\ (last.op = "try_recv" /\ last.snd > 0 /\ Deliverable(last.qb) = <<>>) =>
                last.res = "Empty"

\* An item queued before the last sender was dropped is received after it.
C3_Witness ==
    /\ last.op = "recv"
    /\ last.res = "Ok"
    /\ last.snd = 0
    /\ Len(last.qb) = 2

\* C4: a send pass or try_send returns ChannelClosed exactly when the
\* receiver count is 0 at that time, whatever the value and the free space,
\* and then leaves the queue as it was; the count is the number of live
\* Receiver handles, clones included.
C4_SendClosedIffNoReceiver ==
    /\ receivers = Cardinality(LiveReceivers)
    /\ last.op \in {"send", "try_send"} =>
          /\ last.res = "Closed" <=> last.rcv = 0
          /\ last.res = "Closed" => queue = last.qb

\* An Optional value sent into free space with no receiver left is refused.
C4_Witness ==
    /\ last.op = "try_send"
    /\ last.res = "Closed"
    /\ last.v.kind = "Spam"
    /\ Len(last.qb) < capacity

\* C8: an Optional or SingleOptional value that reaches a deque still full
\* after the Single-class cleanup is skipped: nothing stored, the queue
\* unchanged, pushed = false with no value handed back, and send() and
\* try_send() return ChannelSkipped with the sender not left waiting.
C8_OptionalSkippedWhenFull ==
    (/\ last.op \in {"send", "try_send"}
     /\ last.rcv > 0
     /\ is_delivery_policy_optional(last.v)
     /\ ~is_expired(last.v)
     /\ Len(AfterCleanup(last.qb, last.v)) >= capacity)
    => /\ last.res = "Skipped"
       /\ queue = last.qb
       /\ spc[last.t] = "idle"
       /\ pending[last.t] = NoVal
       /\ LET p == try_push(last.qb, capacity, ordered, last.v)
          IN  ~p.pushed /\ p.value = NoVal /\ p.data = last.qb

\* A blocking send of a SingleOptional value into a full queue was skipped.
C8_Witness ==
    /\ last.op = "send"
    /\ last.v.kind = "K"
    /\ last.rcv > 0
    /\ Len(last.qb) = capacity
    /\ last.res = "Skipped"

\* C2: once the last Sender has been dropped every receiver comes back from
\* recv(): one that was blocked is woken, and a recv pass made with no sender
\* left returns the first deliverable item, or ChannelClosed when there is
\* none; it never waits.
C2_ReceiversReturnAfterClose ==
    /\ [](last.op = "recv" /\ last.snd = 0 =>
            IF Deliverable(last.qb) # <<>>
            THEN last.res = "Ok" /\ last.v = Head(Deliverable(last.qb))
            ELSE last.res = "Closed")
    /\ [](senders = 0 => \A r \in ReceiverThreads : rpc[r] # "waiting")
    /\ [](senders = 0 => <>(\A r \in ReceiverThreads : rpc[r] = "idle"))

\* The last sender is dropped while a receiver is blocked in recv().
C2_Witness ==
    /\ last.op = "drop_sender"
    /\ senders = 0
    /\ \E r \in ReceiverThreads : rpc[r] = "notified"

\* ---- the scripted producer and consumer
Occurrences(seq, v) == Cardinality({i \in DOMAIN seq : seq[i] = v})

ProducerCanStep ==
    \/ prog < ScriptLen /\ spc["s1"] = "idle"
    \/ spc["s1"] = "notified"
    \/ prog = ScriptLen /\ tx["s1"] = "live"

ConsumerCanStep ==
    \/ ~ConsumerDone /\ rpc["r1"] = "idle"
    \/ rpc["r1"] = "notified"

\* C5: with capacity 1, the producer's Always and Single values are never
\* refused or lost: a send() of one returns Ok or waits; no value is received
\* twice; an Optional value is received only if it was stored when sent; the
\* two threads never both stop before the consumer has seen ChannelClosed;
\* and when it has, it has received every Always and every Single value of
\* every round exactly once.
C5_AlwaysAndSingleAllDelivered ==
    /\ (last.op = "send" /\ last.v.kind \in {"Test", "Temperature"}) =>
          last.res \in {"Ok", "Wait"}
    /\ \A i \in 1..Rounds :
          /\ Occurrences(got, Msg("Test", i)) <= 1
          /\ Occurrences(got, Msg("Temperature", i)) <= 1
          /\ Occurrences(got, Msg("Spam", i)) <= (IF i \in optStored THEN 1 ELSE 0)
    /\ ConsumerDone \/ ProducerCanStep \/ ConsumerCanStep
    /\ ConsumerDone =>
          /\ \A i \in 1..Rounds :
                /\ Occurrences(got, Msg("Test", i)) = 1
                /\ Occurrences(got, Msg("Temperature", i)) = 1
          /\ Cardinality({j \in DOMAIN got : got[j].kind \in {"Test", "Temperature"}})
                = 2 * Rounds
          /\ optStored = {} => Len(got) = 2 * Rounds + 1

\* The consumer has drained the channel and seen ChannelClosed after the
\* producer was blocked on the full queue and no Optional value got through.
C5_Witness ==
    /\ ConsumerDone
    /\ prog = ScriptLen
    /\ optStored = {}
    /\ Len(got) = 2 * Rounds + 1

\* ---- the deque
\* C6: the deque never stores more entries than its capacity, which is
\* positive.
C6_LengthWithinCapacity ==
    capacity > 0 /\ Len(queue) <= capacity

\* A push into a full deque that was stored by evicting an entry.
C6_Witness ==
    /\ last.op = "try_push"
    /\ last.res = "Pushed"
    /\ Len(last.qb) = capacity
    /\ Len(queue) = capacity
    /\ capacity > 1

SingleKinds ==
    {k \in Kinds : delivery_policy(k) \in {"Single", "SingleOptional"}}

\* C7: the deque holds at most one entry of each kind whose values are all
\* Single or SingleOptional; after a push of such a value (one that is not
\* expired, so that the push reaches the cleanup) no other entry of its kind
\* and no entry that was expired is left.
C7_SingleKindsHeldOnce ==
    /\ \A k \in SingleKinds :
          Cardinality({i \in DOMAIN queue : queue[i].kind = k}) <= 1
    /\ (/\ last.op = "try_push"
        /\ is_delivery_policy_single(last.v)
        /\ ~is_expired(last.v)) =>
          \A i \in DOMAIN queue :
             queue[i] # last.v => ~eq_kind(queue[i], last.v) /\ ~is_expired(queue[i])

\* A Single value was pushed over a stored value of its kind and an expired
\* entry.
C7_Witness ==
    /\ last.op = "try_push"
    /\ last.res = "Pushed"
    /\ last.v.kind = "K"
    /\ \E i \in DOMAIN last.qb : last.qb[i].kind = "K"
    /\ \E i \in DOMAIN last.qb : is_expired(last.qb[i])
    /\ Len(queue) = 1

\* Ascending priority, and push order (the ids) among equal priorities.
SortedByPriority(seq) ==
    \A i, j \in DOMAIN seq :
       i < j => \/ priority(seq[i].kind) < priority(seq[j].kind)
                \/ /\ priority(seq[i].kind) = priority(seq[j].kind)
                   /\ seq[i].id < seq[j].id

C10_SingleOptionalKeepsLatest ==
    (capacity = 1 /\ sentKinds = {"K"}) =>
       /\ spc["s1"] = "idle"
       /\ last.op \in {"send", "try_send"} => last.res = "Ok"
       /\ got \o queue = <<lastSent>>

\* The consumer has drained the one value left of several sends of K.
C10_Witness ==
    /\ capacity = 1
    /\ sentKinds = {"K"}
    /\ nSent = MaxPush
    /\ got = <<lastSent>>
    /\ queue = <<>>
    /\ last.op = "try_recv"
    /\ last.res = "Empty"

\* -------------------------------------------------------- hub properties
\* The names of the subscriptions of a list that match a message, in order
MatchingNames(subs, v) ==
    LET m == SelectSeq(subs, LAMBDA c : condition(c, v))
    IN  [i \in 1..Len(m) |-> m[i].name]

LogNames(log) == [i \in 1..Len(log) |-> log[i].name]

AllOk(log) == \A i \in 1..Len(log) : log[i].res = "Ok"

\* ---- one thread using the hub
\* C11: when a Hub send has ended with every subscriber send stored, the
\* message is held exactly once by the channel of each of the S registered
\* subscribers it matches and by no other channel, S - 1 clones have been
\* made (none when S = 0), and every matching subscriber but the last in
\* the list was handed a clone, the last the original.
C11_OneCopyPerMatchingSubscriber ==
    (hlast.op = "send_done" /\ AllOk(hlast.log)) =>
       LET names == MatchingNames(hub.subscriptions, hlast.msg)
           S == Len(names)
       IN  /\ LogNames(hlast.log) = names
           /\ \A n \in ClientNames :
                 Occurrences(hchan[n].q, hlast.msg) =
                    IF \E i \in 1..S : names[i] = n THEN 1 ELSE 0
           /\ hlast.clones = IF S = 0 THEN 0 ELSE S - 1
           /\ \A i \in 1..S : hlast.log[i].cloned <=> i < S

\* A send that matched three subscribers has ended: two clones.
C11_Witness ==
    /\ hlast.op = "send_done"
    /\ Len(hlast.log) = 3
    /\ AllOk(hlast.log)
    /\ hlast.clones = 2
    /\ \A n \in ClientNames : Occurrences(hchan[n].q, hlast.msg) = 1

\* ---- two sending threads
Blocked(t) == hsend[t].pc = "waiting"

\* C12: a thread that is past the collection of its targets (sending, or
\* blocked in a subscriber's full channel) does not hold the hub mutex; and
\* while a thread is blocked the mutex is free, so that a registration, a
\* client's drop, another thread's Hub send and another thread's next
\* subscriber send can all take their step.
C12_HubLockFreeWhileSending ==
    /\ \A t \in HubThreads : hsend[t].pc # "idle" => hub.lock # t
    /\ (\E t \in HubThreads : Blocked(t)) =>
          /\ hub.lock = "none"
          /\ \A n \in {"a", "b"} : ENABLED HubRegister(n, DEFAULT_PRIORITY)
          /\ \A n \in ClientNames :
                hchan[n].receivers = 1 => ENABLED ClientDrop(n)
          /\ \A t \in HubThreads :
                /\ hsend[t].pc = "idle" =>
                      ENABLED HubSend(t, Msg("M.Humidity", 0), FALSE, TRUE)
                /\ hsend[t].pc = "sending" => ENABLED HubSendPass(t)

\* While h1 is blocked in the full channel of "a", h2 has ended a send of
\* its own by storing its message in the channel of "b".
C12_Witness ==
    /\ Blocked("h1")
    /\ hsend["h1"].targets[hsend["h1"].i].name = "a"
    /\ hlast.op = "send_done"
    /\ hlast.t = "h2"
    /\ hlast.name = "b"
    /\ AllOk(hlast.log)

\* ---- one thread using the hub
SortedSubscriptions(subs) ==
    \A i, j \in 1..Len(subs) : i < j => subs[i].priority <= subs[j].priority

\* new is old with one subscription of name n put in behind every entry
\* whose priority is not greater, and before the others
InsertedStably(old, new, n) ==
    \E k \in 0..Len(old) :
       /\ Len(new) = Len(old) + 1
       /\ new[k + 1].name = n
       /\ SubSeq(new, 1, k) = SubSeq(old, 1, k)
       /\ SubSeq(new, k + 2, Len(new)) = SubSeq(old, k + 1, Len(old))
       /\ \A i \in 1..k : old[i].priority <= new[k + 1].priority
       /\ \A i \in (k + 1)..Len(old) : old[i].priority > new[k + 1].priority

\* C13: the subscription list is always sorted by priority, ascending; a
\* registration puts the new subscription behind those of equal priority
\* and a client's drop takes one out, both leaving the order of the others
\* as it was (so equal priorities stay in registration order); and a send
\* that has ended has handed the message to the matching subscribers in the
\* order of the list.
C13_SubscriptionsSortedByPriority ==
    [][/\ SortedSubscriptions(hub'.subscriptions)
       /\ (hlast'.op = "register" /\ hlast'.res = "Ok") =>
             InsertedStably(hub.subscriptions, hub'.subscriptions, hlast'.name)
       /\ hlast'.op = "drop" =>
             hub'.subscriptions =
                SelectSeq(hub.subscriptions, LAMBDA c : c.name # hlast'.name)
       /\ hlast'.op = "send_done" =>
             LogNames(hlast'.log) = MatchingNames(hub.subscriptions, hlast'.msg)
      ]_vars

\* Subscribers of priorities 10, 20 and 30 have got one message, in that
\* order.
C13_Witness ==
    /\ hlast.op = "send_done"
    /\ Len(hlast.log) = 3
    /\ [i \in 1..3 |-> hlast.targets[i].priority] = <<10, 20, 30>>
    /\ LogNames(hlast.log) = [i \in 1..3 |-> hlast.targets[i].name]

UniqueNames(subs) ==
    \A i, j \in 1..Len(subs) : subs[i].name = subs[j].name => i = j

\* C14: no two subscriptions of the list have the same name; and a
\* registration under a name the list already holds returns
\* HubAlreadyRegistered and changes neither the list (the existing
\* subscription keeps its place) nor any channel: no channel, no client.
C14_NamesUnique ==
    [][/\ UniqueNames(hub'.subscriptions)
       /\ ( /\ hlast'.op = "register"
            /\ \E i \in 1..Len(hub.subscriptions) :
                  hub.subscriptions[i].name = hlast'.name ) =>
             /\ hlast'.res = "HubAlreadyRegistered"
             /\ hub' = hub
             /\ hchan' = hchan
      ]_vars

\* A second registration under a name has been refused while two
\* subscriptions were held.
C14_Witness ==
    /\ hlast.op = "register"
    /\ hlast.res = "HubAlreadyRegistered"
    /\ Len(hub.subscriptions) = 2
    /\ hub.subscriptions[2].name = hlast.name

\* ---- two sending threads
HasClient(n) == hchan[n].receivers = 1

Registered(n) ==
    \E i \in 1..Len(hub.subscriptions) : hub.subscriptions[i].name = n

\* C15: a name whose Client has been dropped (and that has not been
\* registered again) has no subscription; a send that has just collected
\* its targets has only subscriptions of live clients among them, so it
\* neither delivers to a dropped client nor finds its channel closed or
\* full; and a registration is refused only when a live client holds the
\* name, so the name of a dropped client can be registered again.
C15_DroppedClientUnregistered ==
    /\ \A n \in ClientNames : ~HasClient(n) => ~Registered(n)
    /\ hlast.op = "send" =>
          \A i \in 1..Len(hlast.targets) :
             /\ hlast.targets[i].open
             /\ HasClient(hlast.targets[i].name)
    /\ \A n \in {"a", "b"} :
          ~HasClient(n) => ENABLED HubRegister(n, DEFAULT_PRIORITY)
    /\ (hlast.op = "register" /\ hlast.res = "HubAlreadyRegistered") =>
          HasClient(hlast.name)

\* Client "a" was dropped while h1 held its subscription as a target, the
\* name has been registered again, and a send of h2 that started afterwards
\* has stored its message for the new client "a" and for "b".
C15_Witness ==
    /\ hsend["h1"].pc = "sending"
    /\ \E i \in 1..Len(hsend["h1"].targets) :
          /\ hsend["h1"].targets[i].name = "a"
          /\ ~hsend["h1"].targets[i].open
    /\ Registered("a")
    /\ hlast.op = "send_done"
    /\ hlast.t = "h2"
    /\ LogNames(hlast.log) = <<"b", "a">>
    /\ AllOk(hlast.log)

Failed(res) == res \in {"Closed", "Skipped"}

\* C16: a send_checked whose handler answers false has returned the HubSend
\* error with the first subscriber send that failed, and no subscriber
\* behind that one holds the message; it has returned Ok when no subscriber
\* send failed. A send_checked whose handler answers true, and a plain
\* send, have gone through all their targets whatever the subscriber sends
\* returned, and ended without error.
C16_SendCheckedStopsOnFalse ==
    hlast.op = "send_done" =>
       LET n == Len(hlast.targets)
           m == Len(hlast.log)
       IN  IF hlast.checked /\ ~hlast.handler
           THEN /\ \A i \in 1..(m - 1) : ~Failed(hlast.log[i].res)
                /\ IF m > 0 /\ Failed(hlast.log[m].res)
                   THEN /\ hlast.res = "HubSend"
                        /\ \A j \in (m + 1)..n :
                              HasClient(hlast.targets[j].name) =>
                                 Occurrences(hchan[hlast.targets[j].name].q,
                                             hlast.msg) = 0
                   ELSE hlast.res = "Ok" /\ m = n
           ELSE /\ hlast.res = "Ok"
                /\ m = n
                /\ LogNames(hlast.log) = [i \in 1..n |-> hlast.targets[i].name]

\* A send_checked whose handler answers false has found the channel of its
\* first target closed and returned the error: the second target, a live
\* client, has not got the message.
C16_Witness ==
    /\ hlast.op = "send_done"
    /\ hlast.checked
    /\ ~hlast.handler
    /\ hlast.res = "HubSend"
    /\ Len(hlast.log) = 1
    /\ Len(hlast.targets) = 2
    /\ HasClient(hlast.targets[2].name)

\* ---- test_hub with any messages
\* The messages sent while client n was registered that its condition
\* matches, in the order of the sends
Expected(n) ==
    LET e == SelectSeq(hlog.sent, LAMBDA x : n \in x.to)
    IN  [i \in 1..Len(e) |-> e[i].msg]

\* What client n has received, followed by what waits in its channel
Held(n) == hlog.recvd[n] \o hchan[n].q

IsPrefix(a, b) == Len(a) <= Len(b) /\ a = SubSeq(b, 1, Len(a))

\* C17: what a client has received and what its channel holds are, taken
\* together, the messages sent while it was registered that its condition
\* matches, once each and in the order of the sends: all of them when no
\* send is in progress, all but possibly the last while one is. Nothing
\* else reaches the client, and a message no condition matches reaches
\* nobody.
C17_SubscribersGetExactlyTheirMatches ==
    \A n \in ClientNames :
       HasClient(n) =>
          /\ IsPrefix(Held(n), Expected(n))
          /\ Len(Held(n)) >= Len(Expected(n)) -
                                (IF hsend["h1"].pc = "idle" THEN 0 ELSE 1)

\* "a" matches Temperature, "b" Temperature or Humidity: after Temperature,
\* Humidity and Test have been sent, "a" has received the Temperature and
\* "b" the Temperature and the Humidity; the Test has gone to nobody.
C17_Witness ==
    /\ [i \in 1..Len(hlog.sent) |-> hlog.sent[i].msg.kind] =
          <<"M.Temperature", "M.Humidity", "M.Test">>
    /\ hsend["h1"].pc = "idle"
    /\ HasClient("a") /\ HasClient("b")
    /\ hlog.recvd["a"] = <<Msg("M.Temperature", 1)>>
    /\ hlog.recvd["b"] = <<Msg("M.Temperature", 1), Msg("M.Humidity", 2)>>
    /\ hchan["a"].q = <<>> /\ hchan["b"].q = <<>>
    /\ hlog.sent[1].to = {"a", "b"}
    /\ hlog.sent[2].to = {"b"}
    /\ hlog.sent[3].to = {}

\* ----------------------------------------------- thread spawn properties
TidObtained == task.env.gettid >= 0

\* The parameters the Builder asks for, where real-time mode is on
Requested ==
    IF ~task.env.realtime THEN {}
    ELSE (IF task.env.cpu_ids THEN {"affinity"} ELSE {})
            \cup (IF task.env.priority THEN {"scheduler"} ELSE {})

SetupFails ==
    /\ task.env.create = "ok"
    /\ \/ ~TidObtained
       \/ /\ task.env.realtime
          /\ \/ task.env.cpu_ids /\ task.env.sched_setaffinity # 0
             \/ task.env.priority /\ task.env.sched_setscheduler # 0

\* C18: the body has started only when the parent has set every requested
\* parameter, sent the positive answer and returned Ok; and when the tid
\* cannot be obtained or a parameter cannot be set the body never starts:
\* once the child has got the answer it has panicked, or parked with
\* park_on_errors, and Builder::spawn has returned the RT error.
C18_BodyStartsAfterSetup ==
    /\ task.child \in {"body", "finished"} =>
          /\ task.ack = "true"
          /\ task.par = "returned"
          /\ task.err = "Ok"
          /\ TidObtained
          /\ task.applied = Requested
    /\ SetupFails =>
          /\ task.child \notin {"body", "finished"}
          /\ task.par = "returned" =>
                /\ task.ack = "false"
                /\ task.err \in {"RTGetTId", "RTSchedSetAffinity",
                                 "RTSchedSetSchduler"}
                /\ task.err = "RTGetTId" <=> ~TidObtained
          /\ task.child \notin {"none", "started", "recv_ok"} =>
                task.child = IF task.env.park_on_errors
                             THEN "parked" ELSE "panicked"

\* sched_setscheduler has failed after the affinity was set: spawn has
\* returned RTSchedSetSchduler and the thread has parked.
C18_Witness ==
    /\ task.env.realtime /\ task.env.cpu_ids /\ task.env.priority
    /\ task.env.sched_setaffinity = 0
    /\ task.env.sched_setscheduler # 0
    /\ task.env.park_on_errors
    /\ task.par = "returned"
    /\ task.err = "RTSchedSetSchduler"
    /\ task.child = "parked"

\* ------------------------------------------- controller state properties
\* C19: get() returns the kind that was stored last, for each of Starting,
\* Active, Running, Stopping and Stopped (so after terminate() it returns
\* Stopping); and is_online() answers true exactly when the kind stored
\* last is Starting, Active or Running (so after terminate() it answers
\* false).
C19_GetReturnsWhatWasSet ==
    /\ ( /\ ctl.last.op = "get"
         /\ ctl.stored \in {"Starting", "Active", "Running", "Stopping",
                            "Stopped"} ) =>
          ctl.last.ret = ctl.stored
    /\ ctl.last.op = "is_online" =>
          (ctl.last.ret = "true" <=>
              ctl.stored \in {"Starting", "Active", "Running"})

\* ---------------------------------------------------- shutdown properties
\* C20: once the handler thread has received SIGTERM or SIGINT the process
\* is eventually killed, whatever the workers, block() and the shutdown
\* handler do; it is killed only by the thread of suicide_myself and only
\* after that thread has slept for shutdown_timeout; and when the spawn of
\* the real-time thread has failed, suicide_myself runs in a std::thread.
C20_WatchdogKillsAfterTimeout ==
    /\ (proc.signal \in {"SIGTERM", "SIGINT"}) ~> (proc.ended = "killed")
    /\ [](proc.ended = "killed" =>
             /\ proc.signal \in {"SIGTERM", "SIGINT"}
             /\ proc.wdThread \in {"rt", "std"}
             /\ proc.slept = proc.shutdown_timeout)
    /\ []((task.par = "returned" /\ task.err # "Ok" /\ proc.sig # "suicide") =>
             proc.wdThread = "std")

\* The real-time setup of the watchdog failed, the shutdown handler has not
\* returned, no worker has exited, and the process has been killed by the
\* fallback thread after the timeout.
C20_Witness ==
    /\ proc.ended = "killed"
    /\ proc.shutdown_timeout = MaxTimeout
    /\ proc.slept = MaxTimeout
    /\ proc.wdThread = "std"
    /\ task.err = "RTSchedSetSchduler"
    /\ task.child = "parked"
    /\ proc.sig = "shutdown_handler"
    /\ \A w \in Workers : proc.worker[w] = "running"
    /\ proc.main = "joining"


\* C21: a SIGTERM or SIGINT delivered to the process triggers the shutdown
\* whenever it arrives: it is never delivered with no handler left for it,
\* it never waits for a handler thread that has ended without having taken
\* a SIGTERM or SIGINT (as after a SIGUSR2 whose reload handler returned an
\* error), and the handler thread that took one ends with the watchdog
\* armed and the state set to Stopping.
C21_TermAlwaysTriggersShutdown ==
    /\ \A sg \in TermSignals :
          /\ sg \notin proc.lost
          /\ (sg \in proc.pending /\ HandlerGone) =>
                proc.signal \in TermSignals
    /\ (proc.signal \in TermSignals /\ proc.sig = "exited") =>
          /\ proc.wd = "sleeping"
          /\ ctl.stored \in {"Stopping", "Stopped"}

\* ---------------------------------------------------- supervisor properties
\* The tasks join_all took out of the registry that it has to join
ToJoin == {i \in sup.took : Joins(sup.thr[i])}

\* C22: when Controller::block returns, every task that was registered and
\* is not marked blocking has ended and was joined, the state is Stopped
\* and the registry is empty; block has not returned while one of them
\* still runs; and tasks marked blocking never hold it up: join_all can
\* always pass over a blocking task, and can go on whenever the task it is
\* at has ended.
C22_BlockJoinsNonBlockingTasks ==
    /\ sup.last.op = "block_returns" =>
          /\ \A i \in ToJoin :
                Ended(sup.thr[i]) /\ sup.thr[i].name \in sup.result
          /\ ctl.stored = "Stopped"
          /\ FromI8(ctl.state) = "Stopped"
          /\ \A n \in AllNames : sup.tasks[n] = 0
    /\ sup.main = "joining" =>
          /\ \A n \in AllNames : sup.tasks[n] = 0
          /\ \A k \in DOMAIN sup.taken :
                LET t == sup.thr[sup.taken[k]]
                IN  ~t.blocking /\ ~Ended(t) => ~ENABLED ControllerBlockReturns
          /\ sup.taken # <<>> =>
                LET t == sup.thr[Head(sup.taken)]
                IN  t.blocking \/ Ended(t) => ENABLED JoinAllNext
          /\ sup.taken = <<>> => ENABLED ControllerBlockReturns

\* block has returned after the join of a task that ended, while a task
\* marked blocking that was registered with it still runs.
C22_Witness ==
    /\ sup.last.op = "block_returns"
    /\ \E i, j \in sup.took :
          /\ sup.thr[i].blocking /\ sup.thr[i].st = "running"
          /\ ~sup.thr[j].blocking /\ sup.thr[j].st = "finished"
          /\ sup.thr[j].name \in sup.result

Registry(q) == [n \in AllNames |-> q.tasks[n]]

\* C23: a spawn with no name returns SupervisorNameNotSpecified and one
\* under a registered name SupervisorDuplicateTask, both without starting a
\* thread; a spawn under a name of more than 15 bytes starts no thread
\* either; and every spawn that does not return Ok leaves the registry as
\* it was. So each registered name is the name of one thread, started by a
\* spawn that returned Ok, and no two names share a thread.
C23_FailedSpawnRegistersNothing ==
    [][/\ sup'.n = sup.n + 1 =>
             LET name == sup'.last.name
                 res == sup'.last.res
             IN  /\ name = <<>> <=> res = "SupervisorNameNotSpecified"
                 /\ (name # <<>> /\ sup.tasks[name[1]] # 0) <=>
                       res = "SupervisorDuplicateTask"
                 /\ res \in {"SupervisorNameNotSpecified",
                             "SupervisorDuplicateTask"} =>
                       sup'.last.child = "none" /\ sup'.thr = sup.thr
                 /\ (name # <<>> /\ sup.tasks[name[1]] = 0
                        /\ Len(name[1]) > 15) =>
                       res = "InvalidData" /\ sup'.last.child = "none"
                 /\ res # "Ok" =>
                       Registry(sup') = Registry(sup) /\ sup'.thr = sup.thr
                 /\ res = "Ok" =>
                       /\ sup'.last.child = "running"
                       /\ sup'.tasks[name[1]] = Len(sup'.thr)
                       /\ Len(sup'.thr) = Len(sup.thr) + 1
       /\ \A n \in AllNames :
             sup'.tasks[n] # 0 =>
                /\ sup'.tasks[n] \in DOMAIN sup'.thr
                /\ sup'.thr[sup'.tasks[n]].name = n
                /\ Len(n) <= 15
      ]_vars

\* A spawn under the name of a registered task has been refused.
C23_Witness ==
    /\ sup.last.op = "spawn"
    /\ sup.last.res = "SupervisorDuplicateTask"
    /\ sup.tasks[sup.last.name[1]] = 1
    /\ Len(sup.thr) = 1

\* ---------------------------------------------------- kill_pstree properties
LastOf(seq) == seq[Len(seq)]

\* C24: when kill_pstree has returned, the last signal sent to every process
\* of the tree that had not ended before is SIGKILL, and every process of
\* the tree still alive has been sent one; with an interval each process was sent
\* SIGTERM first, without one SIGKILL only; the root is among the processes
\* signalled exactly when include_parent is true, and no process outside of
\* the tree is signalled.
C24_TreeGetsSigkillLast ==
    pst.pc = "returned" =>
       /\ \A p \in Pids :
             pst.sent[p] # <<>> =>
                /\ p \in pst.alive => LastOf(pst.sent[p]) = "SIGKILL"
                /\ p \in pst.tree
                /\ ~pst.interval => pst.sent[p] = <<"SIGKILL">>
                /\ pst.interval => Head(pst.sent[p]) = "SIGTERM"
       /\ \A p \in (pst.tree \cap pst.alive) \ {"root"} : pst.sent[p] # <<>>
       /\ pst.sent["root"] # <<>> => pst.kill_parent
       /\ (pst.kill_parent /\ "root" \in pst.alive) => pst.sent["root"] # <<>>

\* ------------------------------------------------------ interval properties
\* The call after the first one was made d after it, and every later call
\* as soon as the call before it had returned.
ResumedAfter(d) ==
    /\ Len(ivl.log) >= 2
    /\ ivl.log[2].at = ivl.log[1].at + d
    /\ \A k \in 3..Len(ivl.log) : ivl.log[k].at = ivl.log[k - 1].woke

\* The call was made after its deadline.
Missed(e) == e.before # <<>> /\ e.at > e.before[1]

\* C25: a tick called when the clock equals the deadline returns true and
\* leaves the deadline one period later; and in a sequence of ticks each
\* called at or before its deadline, every tick returns true and the k-th
\* leaves the deadline at the time of the first call plus k periods.
C25_TickAtDeadlineAdvances ==
    \A k \in DOMAIN ivl.log :
       LET e == ivl.log[k]
       IN  /\ e.before = <<e.at>> =>
                e.ret /\ e.after = <<e.at + ivl.period>>
           /\ (\A j \in 2..k : ivl.log[j].at <= ivl.log[j].before[1]) =>
                e.ret /\ e.after = <<ivl.log[1].at + k * ivl.period>>

\* C26 as stated: with Burst, a first tick and a delay of three periods,
\* the next three calls return false, each moving the deadline by one
\* period, and the call after them returns true at once, without sleep.
C26_BurstThreeFalseThenTrueAtOnce ==
    (ivl.missing_tick_behavior = "Burst" /\ ResumedAfter(3 * ivl.period)) =>
       \A k \in 2..Len(ivl.log) :
          LET e == ivl.log[k]
          IN  /\ k <= 4 => ~e.ret /\ e.after = <<e.before[1] + ivl.period>>
              /\ k = 5 => e.ret /\ e.to_sleep = 0 /\ e.woke = e.at

\* C26: with Burst, a tick called after its deadline returns false without
\* sleeping and moves the deadline by exactly one period. After a first
\* tick and a delay of more than three and less than four periods the next
\* three calls return false and the fourth returns true after sleeping
\* until the deadline, four periods after the first call; after a delay of
\* exactly three periods two calls return false and the third returns true
\* at once.
C26_BurstAdvancesOnePeriod ==
    ivl.missing_tick_behavior = "Burst" =>
       LET P == ivl.period
           n == Len(ivl.log)
       IN  /\ \A k \in 1..n :
                LET e == ivl.log[k]
                IN  Missed(e) =>
                       /\ ~e.ret
                       /\ e.after = <<e.before[1] + P>>
                       /\ e.to_sleep = 0
                       /\ e.woke = e.at
           /\ \A d \in (3 * P + 1)..(4 * P - 1) :
                ResumedAfter(d) =>
                   \A k \in 2..n :
                      LET e == ivl.log[k]
                      IN  /\ k <= 4 => ~e.ret
                          /\ k = 5 =>
                                /\ e.ret
                                /\ e.to_sleep = 4 * P - d
                                /\ e.at + e.to_sleep = ivl.log[1].at + 4 * P
           /\ ResumedAfter(3 * P) =>
                \A k \in 2..n :
                   LET e == ivl.log[k]
                   IN  /\ k <= 3 => ~e.ret
                       /\ k = 4 => e.ret /\ e.to_sleep = 0 /\ e.woke = e.at

\* Period 2, the second call 7 after the first: three calls have returned
\* false and the fourth has returned true after a sleep of 1.
C26_Witness ==
    /\ ivl.missing_tick_behavior = "Burst"
    /\ ivl.period = 2
    /\ ResumedAfter(7)
    /\ [k \in 1..Len(ivl.log) |-> ivl.log[k].ret] =
          <<TRUE, FALSE, FALSE, FALSE, TRUE>>
    /\ ivl.log[5].to_sleep = 1

\* C27: with Skip, a tick called after its deadline returns false without
\* sleeping and leaves as deadline the smallest deadline + k * period that
\* is greater than the time of the call; the call made next returns true,
\* and so does every call made as soon as the one before it has returned,
\* each ending its sleep one period after the one before. With a period of
\* 2 and the second call 7 after the first (3.5 periods), four calls return
\* false, true, true, true.
C27_SkipRealignsAfterOneFalse ==
    ivl.missing_tick_behavior = "Skip" =>
       LET P == ivl.period
           n == Len(ivl.log)
       IN  /\ \A k \in 1..n :
                LET e == ivl.log[k]
                IN  Missed(e) =>
                       /\ ~e.ret
                       /\ e.to_sleep = 0
                       /\ e.after[1] > e.at
                       /\ e.after[1] - P <= e.at
                       /\ \E j \in 1..MaxTime : e.after[1] = e.before[1] + j * P
           /\ \A k \in 2..n :
                LET e == ivl.log[k]
                    b == ivl.log[k - 1]
                IN  (e.at = b.woke /\ (~b.ret \/ b.to_sleep > 0)) =>
                       /\ e.ret
                       /\ e.to_sleep > 0
                       /\ e.at + e.to_sleep = b.after[1]
                       /\ e.after = <<b.after[1] + P>>
           /\ (P = 2 /\ ResumedAfter(7)) =>
                \A k \in 2..n : ivl.log[k].ret <=> k > 2

\* Period 2, the second call 7 after the first: the four calls have
\* returned false, true, true, true, the sleeps of the last three ending
\* at 8, 10 and 12 after the first call.
C27_Witness ==
    /\ ivl.missing_tick_behavior = "Skip"
    /\ ivl.period = 2
    /\ ResumedAfter(7)
    /\ [k \in 1..Len(ivl.log) |-> ivl.log[k].ret] =
          <<TRUE, FALSE, TRUE, TRUE, TRUE>>
    /\ [k \in 3..5 |-> ivl.log[k].at + ivl.log[k].to_sleep - ivl.log[1].at] =
          [k \in 3..5 |-> 2 * k + 2]

\* ----------------------------------------------------- semaphore properties
RECURSIVE SumOver(_, _)
SumOver(f, S) ==
    IF S = {} THEN 0
    ELSE LET x == CHOOSE y \in S : TRUE
         IN  f[x] + SumOver(f, S \ {x})

SemWaiting == {t \in SemThreads : sem.pc[t] = "waiting"}
SemNotified == {t \in SemThreads : sem.pc[t] = "notified"}

\* C30: the count of permissions in use is the number of live guards and
\* is never above the capacity; try_acquire returns None exactly when the
\* count is at the capacity; a guard's drop with threads waiting in acquire
\* wakes one of them, so that while a thread still waits every free
\* permission has a woken thread to take it; and a woken thread that finds
\* a free permission takes it.
C30_PermissionsAreLiveGuards ==
    /\ sem.permissions = SumOver(sem.guards, SemThreads)
    /\ sem.permissions <= sem.capacity
    /\ sem.last.op = "try_acquire" =>
          (sem.last.res = "None" <=> sem.last.used = sem.capacity)
    /\ (sem.last.op = "drop" /\ sem.last.waiting # {}) =>
          \E t \in sem.last.waiting : sem.pc[t] = "notified"
    /\ SemWaiting # {} =>
          sem.capacity - sem.permissions <= Cardinality(SemNotified)
    /\ (sem.last.op = "acquire_resume" /\ sem.last.used < sem.capacity) =>
          sem.last.res = "Guard" /\ sem.pc[sem.last.t] = "idle"

\* A thread that waited in acquire has taken the permission another
\* thread's guard gave back, and the semaphore is full again.
C30_Witness ==
    /\ sem.last.op = "acquire_resume"
    /\ sem.last.res = "Guard"
    /\ sem.capacity = MaxPermits
    /\ sem.permissions = sem.capacity
    /\ sem.guards[sem.last.t] = 1
    /\ SemWaiting # {}

\* ------------------------------------------------- async channel properties
NoDuplicates(q) == Cardinality(Range(q)) = Len(q)

\* C28: whatever recv futures are dropped, and at whatever point, every
\* stored item is still queued, or was evicted by a push, or was returned
\* by a recv, and is in one of the three only.
C28_DroppedRecvLosesNothing ==
    LET h == ach.hist
    IN  /\ h.stored = Range(ach.queue) \cup h.evicted \cup h.received
        /\ Range(ach.queue) \cap h.evicted = {}
        /\ Range(ach.queue) \cap h.received = {}
        /\ h.evicted \cap h.received = {}
        /\ NoDuplicates(ach.queue)
        /\ h.twice = {}

\* Recv futures were dropped never polled, queued and woken, the last of
\* them with an item in the queue, and items are received all the same.
C28_Witness ==
    /\ ach.hist.dropped = {"created", "pending", "woken"}
    /\ ach.hist.drops = MaxDrops
    /\ ach.queue # <<>>
    /\ ach.hist.received # {}
    /\ ach.t["rx"].pc = "idle"

\* The Always values of the two senders' loops
AchAlwaysValues ==
    {v \in {AchValueAt(ach, x, n) : x \in AchSenders,
                                    n \in 0..(AchTotal(ach) - 1)} :
        delivery_policy(v.kind) = "Always"}

AchAllDone == \A x \in AchTasks : ach.t[x].pc = "done"

\* C29: with a task awaiting send futures, a thread in send_blocking and a
\* receiver, async or blocking, that receives until ChannelClosed: no value
\* is received twice; when the receiver gets ChannelClosed all senders are
\* dropped, the queue is empty and every Always value has been received;
\* and every run ends with the three of them finished, none left blocked.
C29_MixedSendersAllReceived ==
    /\ [](ach.hist.twice = {})
    /\ [](ach.t["rx"].result = "ChannelClosed" =>
             /\ ach.senders = 0
             /\ ach.queue = <<>>
             /\ AchAlwaysValues \subseteq ach.hist.received)
    /\ <>[]AchAllDone

\* The run is over after the async sender and the blocking sender had to
\* wait at the same time on a channel of capacity one with an async
\* receiver.
C29_Witness ==
    /\ AchAllDone
    /\ ach.mode = "async"
    /\ ach.capacity = 1
    /\ ach.hist.contended
    /\ AchAlwaysValues \subseteq ach.hist.received
    /\ AchAlwaysValues # {}

\* ------------------------------------------------- eviction on a full deque
RemoveAt(q, i) == SubSeq(q, 1, i - 1) \o SubSeq(q, i + 1, Len(q))

Without(q, v) == SelectSeq(q, LAMBDA d : d # v)

\* The positions of the entries a push may evict: expired, or of policy
\* Optional or SingleOptional
Victims(q) ==
    {i \in DOMAIN q :
        q[i].exp \/ delivery_policy(q[i].kind) \in {"Optional", "SingleOptional"}}

\* The last operation was a try_push of an Always or Single value that
\* found the deque full, the entries of its own kind and the expired ones
\* set aside for a Single value
PushedOnFull ==
    /\ last.op = "try_push"
    /\ ~last.v.exp
    /\ delivery_policy(last.v.kind) \in {"Always", "Single"}
    /\ LET kept == IF delivery_policy(last.v.kind) = "Single"
                   THEN {i \in DOMAIN last.qb :
                           last.qb[i].kind # last.v.kind /\ ~last.qb[i].exp}
                   ELSE DOMAIN last.qb
       IN  Cardinality(kept) >= capacity

\* C32: such a push evicts exactly the victim closest to the head, keeps
\* the other entries in their order and stores the value; with no victim
\* the value is handed back and the queue is what it was.
C32_FullPushEvictsFirstVictim ==
    PushedOnFull =>
        IF Victims(last.qb) = {}
        THEN last.res = "Full" /\ queue = last.qb
        ELSE LET i == CHOOSE j \in Victims(last.qb) :
                         \A h \in Victims(last.qb) : j <= h
             IN  /\ last.res = "Pushed"
                 /\ Without(queue, last.v) = RemoveAt(last.qb, i)
                 /\ Len(queue) = Len(last.qb)
                 /\ last.v \in {queue[k] : k \in DOMAIN queue}

\* A full deque held two victims, the first of them not at the head, when
\* the value was pushed.
C32_Witness ==
    /\ PushedOnFull
    /\ last.res = "Pushed"
    /\ Cardinality(Victims(last.qb)) >= 2
    /\ 1 \notin Victims(last.qb)

\* The push found a full deque without a victim.
C32_WitnessFull ==
    /\ PushedOnFull
    /\ Victims(last.qb) = {}
    /\ Len(last.qb) > 1

\* ------------------------------------------------- order of the shutdown
\* A thread that runs suicide_myself exists: it sleeps towards the kill, or
\* it was started by Builder::spawn, has its answer and is about to sleep
WatchdogArmed ==
    \/ proc.wd = "sleeping"
    \/ task.ack = "true" /\ task.child = "recv_ok"

\* C33: while the user's shutdown handler runs the forced-kill watchdog is
\* armed, and the state is Stopping only once the handler called for
\* SIGTERM or SIGINT has returned, the watchdog armed before it.
C33_WatchdogThenHandlerThenStopping ==
    /\ proc.sig = "shutdown_handler" =>
          WatchdogArmed /\ proc.signal \in TermSignals
    /\ proc.sig \in {"waiting", "suicide", "shutdown_handler", "reload"} =>
          ctl.stored # "Stopping"
    /\ ctl.stored = "Stopping" =>
          /\ ctl.last = [op |-> "terminate", t |-> "sig", ret |-> "none"]
          /\ proc.sig = "exited"
          /\ proc.signal \in TermSignals
          /\ WatchdogArmed

\* SIGINT was handled to the end: the state is Stopping, the handler
\* thread is gone and the watchdog, started in a plain thread after the
\* real-time spawn failed, still sleeps.
C33_Witness ==
    /\ ctl.stored = "Stopping"
    /\ proc.signal = "SIGINT"
    /\ proc.sig = "exited"
    /\ proc.wdThread = "std"
    /\ proc.ended = "no"
    /\ proc.left > 0

\* ------------------------------------------ signal handler registration
\* (src/src/controller.rs, Controller::register_signals_with_handlers)
\* supervisor.spawn(builder, f) for a Builder with the given parameters:
\* the thread is created, gettid is read and apply_thread_params runs
SigSpawnOutcome(create, gettid, env, rt) ==
    IF create = "os_error" THEN "Io"
    ELSE IF gettid < 0 THEN "RTGetTId"
    ELSE LET r == apply_thread_params(
                     [realtime |-> env.realtime, cpu_ids |-> rt,
                      priority |-> rt,
                      sched_setaffinity |-> env.sched_setaffinity,
                      sched_setscheduler |-> env.sched_setscheduler])
         IN  IF r.err = "none" THEN "Ok" ELSE r.err

\* The thread a spawn leaves behind: none, the handler waiting for a
\* signal, or (builder.park_on_errors = true) a parked thread
SigThreadAfter(res) ==
    IF ~ThreadStarted(res) THEN "none"
    ELSE IF res = "Ok" THEN "waiting" ELSE "parked"

\* `if !matches!(e, Error::RTSchedSetSchduler(_)) { return Err(e); }`
FallsBackOn(e) == e = "RTSchedSetSchduler"

\* The spawn of "RoboPLCSigRT" (FIFO, priority 99, CPU 0): Ok returns Ok,
\* an error either returns or leads to the fallback. Signals::new fails
\* before the spawn.
RegisterSpawnRT(signals, create, gettid) ==
    /\ sigt.pc = "start"
    /\ LET name == <<"RoboPLCSigRT">>
           res == IF signals = "err" THEN "Io"
                  ELSE BuilderSpawnResult(
                          name, SigSpawnOutcome(create, gettid, sigt.env, TRUE))
           thr == IF signals = "err" THEN "none" ELSE SigThreadAfter(res)
       IN  sigt' = [sigt EXCEPT
                      !.first = res,
                      !.thread = [@ EXCEPT ![name[1]] = thr],
                      !.tasks = IF Inserts(res) THEN @ \cup {name[1]} ELSE @,
                      !.pc = IF res # "Ok" /\ FallsBackOn(res)
                             THEN "fallback" ELSE "returned",
                      !.ret = IF res # "Ok" /\ FallsBackOn(res)
                              THEN "none" ELSE res]

\* The spawn of "RoboPLCSig" with RTParams::new(); its result is returned
RegisterFallback(signals, create, gettid) ==
    /\ sigt.pc = "fallback"
    /\ LET name == <<"RoboPLCSig">>
           res == IF signals = "err" THEN "Io"
                  ELSE BuilderSpawnResult(
                          name, SigSpawnOutcome(create, gettid, sigt.env, FALSE))
           thr == IF signals = "err" THEN "none" ELSE SigThreadAfter(res)
       IN  sigt' = [sigt EXCEPT
                      !.second = res,
                      !.thread = [@ EXCEPT ![name[1]] = thr],
                      !.tasks = IF Inserts(res) THEN @ \cup {name[1]} ELSE @,
                      !.pc = "returned",
                      !.ret = res]

\* signals.forever().next() yields a signal to a waiting handler thread
SigSignals == {"SIGTERM", "SIGINT", "SIGUSR2"}

SignalTaken(n, sig) ==
    /\ sigt.pc = "returned"
    /\ sigt.thread[n] = "waiting"
    /\ sigt' = [sigt EXCEPT !.thread = [@ EXCEPT ![n] = "handling"],
                            !.signal = sig]

\* The closure handles one signal and returns: SIGTERM and SIGINT start
\* suicide(), call the shutdown handler and terminate the context; SIGUSR2
\* calls the reload handler and, if that is Ok, reload_executable
SigHandlerStep(n, reload) ==
    /\ sigt.thread[n] \in {"handling", "suicide", "shutdown_handler", "reload_ok"}
    /\ LET st == sigt.thread[n]
           nxt == IF st = "handling"
                  THEN IF sigt.signal = "SIGUSR2"
                       THEN IF reload = "Ok" THEN "reload_ok" ELSE "finished"
                       ELSE "suicide"
                  ELSE IF st = "suicide" THEN "shutdown_handler"
                  ELSE IF st = "shutdown_handler" THEN "finished"
                  ELSE "reloaded"
       IN  sigt' = [sigt EXCEPT
                      !.thread = [@ EXCEPT ![n] = nxt],
                      !.terminated = @ \/ (st = "shutdown_handler")]

NotSigt == <<chanVars, histVars, scriptVars, hubVars, ctl, proc, task,
             sup, pst, ivl, ach, sem, comm>>

InitRegister ==
    /\ ChannelUnused
    /\ HubUnused
    /\ RtUnused
    /\ SupervisorNew
    /\ PstreeNew({[p \in Pids |-> "init"]})
    /\ IntervalNew({1}, {"Burst"})
    /\ AsyncChannelNew({1}, {"async"}, 0)
    /\ SemaphoreNew({1})
    /\ SigRegisterNew(SigEnvs)
    /\ TcpNew

NextRegister ==
    \/ \E sg \in {"ok", "err"}, c \in {"ok", "os_error"}, g \in {-1, 7} :
          RegisterSpawnRT(sg, c, g) /\ UNCHANGED NotSigt
    \/ \E sg \in {"ok", "err"}, c \in {"ok", "os_error"}, g \in {-1, 7} :
          RegisterFallback(sg, c, g) /\ UNCHANGED NotSigt
    \/ \E n \in SigThreadNames, sig \in SigSignals :
          SignalTaken(n, sig) /\ UNCHANGED NotSigt
    \/ \E n \in SigThreadNames, r \in {"Ok", "Err"} :
          SigHandlerStep(n, r) /\ UNCHANGED NotSigt

SpecRegister == InitRegister /\ [][NextRegister]_vars

\* C34: if the real-time setup of the signal thread fails, at the CPU
\* affinity or at the scheduler, register_signals_with_handlers goes on to
\* spawn the non-real-time thread and returns Ok when that spawn succeeds;
\* and after a return of Ok exactly one handler thread waits for signals.
SigWaiting == {n \in SigThreadNames : sigt.thread[n] = "waiting"}

C34_FallbackOnAnySetupFailure ==
    sigt.pc = "returned" =>
       /\ sigt.first \in {"RTSchedSetAffinity", "RTSchedSetSchduler"}
             => /\ sigt.second # "none"
                /\ sigt.second = "Ok" => sigt.ret = "Ok"
       /\ sigt.ret = "Ok" /\ sigt.signal = "none"
             => Cardinality(SigWaiting) = 1

\* C37: in the synchronous channel a recv() or try_recv() that removes
\* entries from the queue, expired ones it only discards included, notifies
\* a sender blocked in send(); and no state is reachable where the queue is
\* empty, a sender waits for space with no sender woken, and every
\* receiver waits for data.
RecvRemoved ==
    /\ last.op \in {"recv", "try_recv"}
    /\ Len(queue) < Len(last.qb)

SendersStuck ==
    /\ queue = <<>>
    /\ \E s \in SenderThreads : spc[s] = "waiting"
    /\ \A s \in SenderThreads : spc[s] # "notified"
    /\ \E r \in ReceiverThreads : rx[r] = "live"
    /\ \A r \in ReceiverThreads : rx[r] = "live" => rpc[r] = "waiting"

C37_RecvRemovalNotifiesSenders ==
    /\ RecvRemoved /\ (\E s \in SenderThreads : spc[s] = "waiting")
          => \E s \in SenderThreads : spc[s] = "notified"
    /\ ~SendersStuck

\* ------------------------------------------------ sender-only hub clients
\* (src/src/hub.rs, Hub::sender and Drop for Client)
MaxSenderClients == 2

\* The names clients register with here; the empty name is a name like any
\* other to register_with_options
SenderSpecNames == {"", "a"}

\* The name Hub::sender gives its Client
SenderClientName == ""

\* Drop for Client, for a Client made by Hub::sender: unregister(&self.name)
SenderDropUnregisters(subs, name) == unregister(subs, name)

\* Hub::sender: a Client named "" with the Receiver of a channel of its own
HubSender ==
    /\ hub.senders < MaxSenderClients
    /\ hub' = [hub EXCEPT !.senders = @ + 1]
    /\ hlast' = HubEvent("sender", "user", SenderClientName, "Ok", IdleSend)
    /\ UNCHANGED <<hchan, hsend>>

\* A sender-only Client is dropped; the channels of the registered clients
\* are not its own
SenderClientDrop ==
    /\ hub.senders > 0
    /\ hub.lock = "none"
    /\ hub' = [hub EXCEPT
                 !.senders = @ - 1,
                 !.subscriptions = SenderDropUnregisters(@, SenderClientName)]
    /\ hlast' = HubEvent("drop_sender", "user", SenderClientName, "Ok", IdleSend)
    /\ UNCHANGED <<hchan, hsend>>

InitHubSender ==
    HubNewNamed(SenderSpecNames, {1}) /\ ChannelUnused /\ RtUnused /\ ExtUnused

\* Client::send of a sender-only Client is Hub::send
NextHubSender ==
    \/ HubSender /\ UNCHANGED <<hlog, NotHub>>
    \/ SenderClientDrop /\ UNCHANGED <<hlog, NotHub>>
    \/ \E k \in {"M.Temperature", "M.Test"} :
          /\ hub.senders > 0
          /\ hlog.n < MaxHubSends
          /\ HubSend("h1", Msg(k, hlog.n + 1), FALSE, TRUE)
          /\ CountSend
          /\ UNCHANGED NotHub
    \/ HubSendPass("h1") /\ UNCHANGED <<hlog, NotHub>>
    \/ \E n \in SenderSpecNames :
          HubRegister(n, DEFAULT_PRIORITY) /\ UNCHANGED <<hlog, NotHub>>
    \/ \E n \in SenderSpecNames : ClientDrop(n) /\ UNCHANGED <<hlog, NotHub>>
    \/ \E n \in SenderSpecNames : ClientTryRecv(n) /\ UNCHANGED <<hlog, NotHub>>

SpecHubSender == InitHubSender /\ [][NextHubSender]_vars

\* C39: the drop of a sender-only Client removes no subscription: every
\* Client that is registered and alive, whatever its name, the empty name
\* included, still has its subscription in the hub.
C39_SenderDropKeepsSubscriptions ==
    \A n \in DOMAIN hchan :
       hchan[n].receivers = 1 => NameTaken(hub.subscriptions, n)

\* ------------------------------------------------------ comm::tcp client
\* (src/src/comm/tcp.rs, src/src/comm/mod.rs)
MaxSessions == 3

\* What a connection attempt meets: the stream is connected and set up;
\* connect, a set_* call or on_connect fails; or the reader cannot be sent
\* (stream.try_clone / tx.send) after session_id was increased
ConnectOutcomes == {"ok", "connect_err", "reader_err"}

\* Tcp::get_stream: the stream in place, or a new one if reconnects are
\* allowed
get_stream(c, outcome) ==
    IF c.stream = "open" THEN [res |-> "Ok", c |-> c, connected |-> FALSE]
    ELSE IF ~c.allow_reconnect
    THEN [res |-> "IO", c |-> c, connected |-> FALSE]
    ELSE IF outcome = "connect_err"
    THEN [res |-> "IO", c |-> c, connected |-> FALSE]
    ELSE IF outcome = "reader_err"
    THEN [res |-> "IO", c |-> [c EXCEPT !.session_id = @ + 1],
          connected |-> TRUE]
    ELSE [res |-> "Ok",
          c |-> [c EXCEPT !.session_id = @ + 1, !.stream = "open"],
          connected |-> TRUE]

\* The SessionGuards alive
GuardsAlive(c) == {g \in GuardIds : c.guards[g] # 0}

CommEvent(op, res, r) ==
    [op |-> op, res |-> res, before |-> comm.session_id,
     lost |-> comm.stream = "none", connected |-> r.connected,
     held |-> GuardsAlive(comm)]

\* Client::lock_session: Tcp::lock_session and the SessionGuard made of
\* its result
LockSession(g, outcome) ==
    /\ comm.guards[g] = 0
    /\ comm.session_id < MaxSessions
    /\ LET r == get_stream(comm, outcome)
       IN  comm' = IF r.res # "Ok"
                   THEN [r.c EXCEPT !.last = CommEvent("lock_session", r.res, r)]
                   ELSE [r.c EXCEPT
                           !.allow_reconnect = FALSE,
                           !.guards = [@ EXCEPT ![g] = r.c.session_id],
                           !.last = CommEvent("lock_session", "Ok", r)]

\* Drop for SessionGuard: Tcp::unlock_session
SessionGuardDrop(g) ==
    /\ comm.guards[g] # 0
    /\ comm' = [comm EXCEPT
                  !.allow_reconnect = TRUE,
                  !.guards = [@ EXCEPT ![g] = 0],
                  !.last = [op |-> "drop_guard", res |-> "Ok",
                            before |-> comm.session_id,
                            lost |-> comm.stream = "none",
                            connected |-> FALSE,
                            held |-> GuardsAlive(comm) \ {g}]]

\* Tcp::connect
CommConnect(outcome) ==
    /\ comm.session_id < MaxSessions
    /\ LET r == get_stream(comm, outcome)
       IN  comm' = [r.c EXCEPT !.last = CommEvent("connect", r.res, r)]

\* Tcp::write: any error of write_all takes the stream away
CommWrite(outcome, io) ==
    /\ comm.session_id < MaxSessions
    /\ LET r == get_stream(comm, outcome)
           res == IF r.res # "Ok" THEN r.res ELSE io
       IN  comm' = [r.c EXCEPT
                      !.stream = IF r.res = "Ok" /\ io # "Ok" THEN "none" ELSE @,
                      !.last = CommEvent("write", IF res = "Ok" THEN "Ok" ELSE "IO", r)]

\* Tcp::read_exact: only ErrorKind::TimedOut takes the stream away
CommReadExact(outcome, io) ==
    /\ comm.session_id < MaxSessions
    /\ LET r == get_stream(comm, outcome)
           res == IF r.res # "Ok" THEN r.res ELSE io
       IN  comm' = [r.c EXCEPT
                      !.stream = IF r.res = "Ok" /\ io = "TimedOut"
                                 THEN "none" ELSE @,
                      !.last = CommEvent("read_exact",
                                         IF res = "Ok" THEN "Ok" ELSE "IO", r)]

\* Tcp::reconnect: the stream is taken and shut down
CommReconnect ==
    /\ comm' = [comm EXCEPT
                  !.stream = "none",
                  !.last = [op |-> "reconnect", res |-> "Ok",
                            before |-> comm.session_id,
                            lost |-> comm.stream = "none",
                            connected |-> FALSE, held |-> GuardsAlive(comm)]]

NotComm == <<chanVars, histVars, scriptVars, hubVars, ctl, proc, task,
             sup, pst, ivl, ach, sem, sigt>>

InitComm ==
    /\ ChannelUnused
    /\ HubUnused
    /\ RtUnused
    /\ SupervisorNew
    /\ PstreeNew({[p \in Pids |-> "init"]})
    /\ IntervalNew({1}, {"Burst"})
    /\ AsyncChannelNew({1}, {"async"}, 0)
    /\ SemaphoreNew({1})
    /\ SigRegisterNew({[realtime |-> FALSE, sched_setaffinity |-> 0,
                        sched_setscheduler |-> 0]})
    /\ TcpNew

NextComm ==
    \/ \E g \in GuardIds, o \in ConnectOutcomes :
          LockSession(g, o) /\ UNCHANGED NotComm
    \/ \E g \in GuardIds : SessionGuardDrop(g) /\ UNCHANGED NotComm
    \/ \E o \in ConnectOutcomes : CommConnect(o) /\ UNCHANGED NotComm
    \/ \E o \in ConnectOutcomes, io \in {"Ok", "BrokenPipe"} :
          CommWrite(o, io) /\ UNCHANGED NotComm
    \/ \E o \in ConnectOutcomes, io \in {"Ok", "TimedOut", "UnexpectedEof"} :
          CommReadExact(o, io) /\ UNCHANGED NotComm
    \/ CommReconnect /\ UNCHANGED NotComm

SpecComm == InitComm /\ [][NextComm]_vars

\* C40: while a SessionGuard is alive the client opens no new connection:
\* session_id() equals the session id of every guard alive, and an
\* operation that finds the connection lost fails; this also with several
\* guards of which some were dropped. With no guard alive reconnects are
\* allowed, and each new connection adds exactly one to the session id.
C40_GuardsHoldTheSession ==
    /\ \A g \in GuardsAlive(comm) : comm.session_id = comm.guards[g]
    /\ (/\ comm.last.held # {}
        /\ comm.last.lost
        /\ comm.last.op \in {"lock_session", "connect", "write", "read_exact"})
          => comm.last.res = "IO" /\ ~comm.last.connected
    /\ GuardsAlive(comm) = {} => comm.allow_reconnect
    /\ comm.session_id =
          comm.last.before + (IF comm.last.connected THEN 1 ELSE 0)

\* ----------------------------------- async channel: futures and wakers
\* Tasks that use the channel through send() and recv() futures only, and
\* that may drop a future or poll it again at any point, as select and
\* join do with the futures they hold
FutSenders == {"atx", "btx", "ctx"}
FutReceivers == {"rx", "ry"}
FutTasks == FutSenders \cup FutReceivers

MaxWakers == 3

\* The futures made in all: send() and recv() take their ids from one
\* counter that starts at 1
MaxFutures == 4

FutIdsLeft == ach.next_op_id <= MaxFutures

\* Drop for Send before it has completed: never polled, queued, or woken
\* and not polled again
SendFutDrop(x) ==
    /\ ach.t[x].pc \in {"created", "pending", "woken"}
    /\ ach.hist.drops < MaxDrops
    /\ LET me == ach.t[x]
           a1 == [ach EXCEPT !.t[x] = [@ EXCEPT !.pc = "idle", !.fut = 0,
                                                !.queued = FALSE,
                                                !.value = NoVal],
                             !.hist.dropped = @ \cup {me.pc},
                             !.hist.drops = @ + 1]
       IN  IF me.queued
           THEN ach' \in notify_send_fut_drop(a1, me.fut)
           ELSE ach' = a1

\* A pending Send is polled again although its waker was not called
SendRepoll(x) ==
    /\ ach.t[x].pc = "pending"
    /\ Len(ach.send_fut_wakers) < MaxWakers
    /\ SendFutPoll(x)

\* A pending Recv is polled again although its waker was not called
RecvRepoll(x) ==
    /\ ach.t[x].pc = "pending"
    /\ Len(ach.recv_fut_wakers) < MaxWakers
    /\ RecvFutPoll(x)

InitAsyncFut ==
    /\ AsyncChannelNewFor(FutTasks, 3, 2, {1}, {"async"}, 1)
    /\ SemaphoreNew({1})
    /\ SupervisorNew
    /\ PstreeNew({[p \in Pids |-> "init"]})
    /\ IntervalNew({1}, {"Burst"})
    /\ RtUnused
    /\ MoreUnused
    /\ ChannelUnused
    /\ HubUnused

NextAsyncFut ==
    \/ \E x \in FutSenders : FutIdsLeft /\ SendCall(x) /\ UNCHANGED NotAch
    \/ \E x \in FutSenders : SendPoll(x) /\ UNCHANGED NotAch
    \/ \E x \in FutSenders : SendRepoll(x) /\ UNCHANGED NotAch
    \/ \E x \in FutSenders : SendFutDrop(x) /\ UNCHANGED NotAch
    \/ \E x \in FutReceivers : FutIdsLeft /\ RecvCall(x) /\ UNCHANGED NotAch
    \/ \E x \in FutReceivers : RecvPoll(x) /\ UNCHANGED NotAch
    \/ \E x \in FutReceivers : RecvRepoll(x) /\ UNCHANGED NotAch
    \/ \E x \in FutReceivers : RecvFutDrop(x) /\ UNCHANGED NotAch

SpecAsyncFut == InitAsyncFut /\ [][NextAsyncFut]_vars

\* A waker entry of a future that is still waiting: the task holds the
\* future with that id and it is pending
LiveWaiter(a, w) ==
    /\ w.id # 0
    /\ w.task \in DOMAIN a.t
    /\ a.t[w.task].fut = w.id
    /\ a.t[w.task].pc = "pending"

\* The task of the waiter queued longest in q, "none" if no future waits
LongestQueued(a, q) ==
    LET live == {i \in DOMAIN q : LiveWaiter(a, q[i])}
    IN  IF live = {} THEN "none"
        ELSE q[CHOOSE i \in live : \A j \in live : i <= j].task

\* The step is the drop of the future that task x holds
FutDropStep(x) ==
    /\ ach.t[x].fut # 0
    /\ ach'.t[x].fut = 0
    /\ ach'.hist.drops = ach.hist.drops + 1

\* The step is the first poll of the future that task x holds
FirstPollStep(x) ==
    /\ ach.t[x].pc = "created"
    /\ ach'.t[x].pc # "created"
    /\ ach'.hist.drops = ach.hist.drops

\* C35: a send or recv future dropped while its entry is in the waker
\* queue leaves no entry of its id there, and one dropped after it was
\* woken and before it was polled again has the longest-queued waiter
\* woken in its place; so whenever a slot is free and a send future waits,
\* or an item is queued and a recv future waits, some such future has been
\* woken.
DropOf(x, q, qn, woke) ==
    FutDropStep(x) =>
       /\ \A i \in DOMAIN qn : qn[i].id # ach.t[x].fut
       /\ (ach.t[x].fut \in woke /\ LongestQueued(ach, q) # "none")
             => ach'.t[LongestQueued(ach, q)].pc = "woken"

DropsPassTheWakeOn ==
    /\ \A x \in FutSenders :
          DropOf(x, ach.send_fut_wakers, ach'.send_fut_wakers,
                 ach.send_fut_pending)
    /\ \A x \in FutReceivers :
          DropOf(x, ach.recv_fut_wakers, ach'.recv_fut_wakers,
                 ach.recv_fut_pending)

SomeWaiterWoken ==
    /\ (/\ Len(ach.queue) < ach.capacity
        /\ \E x \in FutSenders : ach.t[x].pc = "pending")
          => \E x \in FutSenders : ach.t[x].pc = "woken"
    /\ (/\ ach.queue # <<>>
        /\ \E x \in FutReceivers : ach.t[x].pc = "pending")
          => \E x \in FutReceivers : ach.t[x].pc = "woken"

C35_DroppedFutureLeavesQueueAndPassesWake ==
    [][DropsPassTheWakeOn]_vars /\ []SomeWaiterWoken

\* C36: waiters are woken in the order they were queued: a step that frees
\* a slot wakes the send future queued longest, a step that stores an item
\* wakes the recv future queued longest, and a future polled for the first
\* time while the waker queue is not empty leaves the queue of values as
\* it is and is appended to the waker queue.
WokenInOrder ==
    /\ (Len(ach'.queue) < Len(ach.queue)
        /\ LongestQueued(ach, ach.send_fut_wakers) # "none")
          => ach'.t[LongestQueued(ach, ach.send_fut_wakers)].pc = "woken"
    /\ (Len(ach'.queue) > Len(ach.queue)
        /\ LongestQueued(ach, ach.recv_fut_wakers) # "none")
          => ach'.t[LongestQueued(ach, ach.recv_fut_wakers)].pc = "woken"

FirstPollQueuesBehind ==
    /\ \A x \in FutSenders :
          (FirstPollStep(x) /\ ach.send_fut_wakers # <<>>)
             => /\ ach'.queue = ach.queue
                /\ ach'.send_fut_wakers =
                      Append(ach.send_fut_wakers, FutWaker(ach.t[x].fut, x))
    /\ \A x \in FutReceivers :
          (FirstPollStep(x) /\ ach.recv_fut_wakers # <<>>)
             => /\ ach'.queue = ach.queue
                /\ ach'.recv_fut_wakers =
                      Append(ach.recv_fut_wakers, FutWaker(ach.t[x].fut, x))

C36_WaitersWokenInQueueOrder ==
    [][WokenInOrder /\ FirstPollQueuesBehind]_vars

\* C38: neither waker queue holds two entries with the same future id, and
\* every entry belongs to a future that is alive and pending, so that the
\* entry wake_next_send or wake_next_recv pops wakes a future that waits.
OneLiveEntryEach(q) ==
    /\ \A i, j \in DOMAIN q : (i # j /\ q[i].id # 0) => q[i].id # q[j].id
    /\ \A i \in DOMAIN q : q[i].id # 0 => LiveWaiter(ach, q[i])

C38_WakerQueuesHoldLiveFuturesOnce ==
    /\ OneLiveEntryEach(ach.send_fut_wakers)
    /\ OneLiveEntryEach(ach.recv_fut_wakers)

====
